---------------------------- MODULE Spec2Model ----------------------------
(***************************************************************************)
(* Model of the proxy pool service of anjanacorporation/proxypilot:        *)
(*   - MemStorage (proxy and screen-session maps),                         *)
(*   - ProxyService (failure tracker, pool selector, health check),        *)
(*   - the /api/proxy-fetch request router.                                *)
(*                                                                         *)
(* Granularity.  Node runs one handler at a time; a handler gives up the   *)
(* processor only while it waits for the network (axios).  MemStorage      *)
(* methods complete without I/O, so the code between two network waits    *)
(* runs as one step.  Every action below is one such run: from a request   *)
(* arriving or a network answer arriving to the next network wait or the   *)
(* response.                                                               *)
(*                                                                         *)
(* Strings that the code inspects (country names) are sequences of         *)
(* one-character strings, so trim() and toLowerCase() are computed.        *)
(***************************************************************************)
EXTENDS Integers, Sequences, FiniteSets, TLC

VARIABLES
  proxies,        \* MemStorage.proxies: id -> Proxy record
  sessions,       \* MemStorage.screenSessions: id -> ScreenSession record
  failureCounts,  \* ProxyService.failureCounts: id -> number
  strictPick,     \* process.env.STRICT_COUNTRY_PICK === 'true'
  now,            \* the clock read by new Date() / Date.now()
  hc,             \* healthCheckProxy calls waiting for their probe: ids of the records probed
  sel,            \* the getProxyForScreen call in progress
  rq,             \* the /api/proxy-fetch request in progress
  report,         \* history: the tracker report made by the last step
  streak,         \* history: consecutive failure reports per id since its last success report
  nfail,          \* history: failure reports per id (saturating)
  evicted,        \* history: ids removed by failure-driven eviction
  vf,             \* the verifyAllProxies pass in progress
  ing,            \* the storage in use and the updateProxies sweeps in progress
  scr,            \* the scrapeAllSources call in progress
  geo,            \* ProxyScraper.geoCache, its file, and the lookups in progress
  stats,          \* ProxyService.statsCache and the last getProxyStats call
  ses             \* the session ids given out so far and the last session request

vars == <<proxies, sessions, failureCounts, strictPick, now, hc, sel, rq,
          report, streak, nfail, evicted, vf, ing, scr, geo, stats, ses>>

-----------------------------------------------------------------------------
(* Bounds of the model *)

MaxProxies == 2
MaxTime == 2
MaxFetches == 2
MaxSweeps == 2

-----------------------------------------------------------------------------
(* Country strings *)

usa == <<"u","s","a">>
canada == <<"c","a","n","a","d","a">>
australia == <<"a","u","s","t","r","a","l","i","a">>
uk == <<"u","k">>
germany == <<"g","e","r","m","a","n","y">>
france == <<"f","r","a","n","c","e">>
netherlands == <<"n","e","t","h","e","r","l","a","n","d","s">>
unknown == <<"u","n","k","n","o","w","n">>

\* String.prototype.toLowerCase on one character
LowerChar(ch) ==
  CASE ch = "A" -> "a" [] ch = "B" -> "b" [] ch = "C" -> "c" [] ch = "D" -> "d"
    [] ch = "E" -> "e" [] ch = "F" -> "f" [] ch = "G" -> "g" [] ch = "H" -> "h"
    [] ch = "I" -> "i" [] ch = "J" -> "j" [] ch = "K" -> "k" [] ch = "L" -> "l"
    [] ch = "M" -> "m" [] ch = "N" -> "n" [] ch = "O" -> "o" [] ch = "P" -> "p"
    [] ch = "Q" -> "q" [] ch = "R" -> "r" [] ch = "S" -> "s" [] ch = "T" -> "t"
    [] ch = "U" -> "u" [] ch = "V" -> "v" [] ch = "W" -> "w" [] ch = "X" -> "x"
    [] ch = "Y" -> "y" [] ch = "Z" -> "z" [] OTHER -> ch

toLowerCase(s) == [i \in 1..Len(s) |-> LowerChar(s[i])]

RECURSIVE trimStart(_)
trimStart(s) ==
  IF s # <<>> /\ Head(s) = " " THEN trimStart(Tail(s)) ELSE s

RECURSIVE trimEnd(_)
trimEnd(s) ==
  IF s # <<>> /\ s[Len(s)] = " " THEN trimEnd(SubSeq(s, 1, Len(s) - 1)) ELSE s

\* String.prototype.trim
trim(s) == trimEnd(trimStart(s))

\* ProxyService.normalizeCountry
normalizeCountry(c) ==
  IF c = <<>> THEN c
  ELSE LET s == toLowerCase(trim(c)) IN
    IF s \in { <<"u","s">>,
               <<"u","n","i","t","e","d"," ","s","t","a","t","e","s">>,
               <<"u","n","i","t","e","d","_","s","t","a","t","e","s">>,
               usa } THEN usa
    ELSE IF s \in { <<"c","a">>, <<"c","a","n">>, canada } THEN canada
    ELSE IF s \in { <<"a","u">>, australia } THEN australia
    ELSE IF s \in { <<"g","b">>, uk,
                    <<"u","n","i","t","e","d"," ","k","i","n","g","d","o","m">>,
                    <<"u","n","i","t","e","d","_","k","i","n","g","d","o","m">> } THEN uk
    ELSE IF s \in { <<"d","e">>, germany } THEN germany
    ELSE IF s \in { <<"f","r">>, france } THEN france
    ELSE IF s \in { <<"n","l">>, netherlands } THEN netherlands
    ELSE IF s = unknown THEN unknown
    ELSE s

-----------------------------------------------------------------------------
(* Ports *)

SocksPort == 1080

commonHttpPorts == {80, 8080, 8081, 8082, 8000, 8888, 3128, 3129, 8118}

\* ProxyService.isLikelyHttpProxy
isLikelyHttpProxy(port) ==
  IF port = SocksPort THEN FALSE
  ELSE port \in commonHttpPorts \/ (port > 1024 /\ port # SocksPort)

-----------------------------------------------------------------------------
(* MemStorage *)

\* null and a present value of a nullable field
Null == <<>>
Some(v) == <<v>>

\* the keys of a map in ascending order: a Map iterates in insertion
\* order and createProxy inserts ids in ascending order
SortedIds(S) ==
  [i \in 1..Cardinality(S) |->
     CHOOSE x \in S : Cardinality({ y \in S : y < x }) = i - 1]

\* MemStorage.getProxies(country?)
getProxies(pool, country) ==
  LET all == [i \in 1..Cardinality(DOMAIN pool) |-> pool[SortedIds(DOMAIN pool)[i]]]
      InCountry(p) == p.country = country
  IN IF country # <<>> THEN SelectSeq(all, InCountry) ELSE all

\* a variant of getWorkingProxies without the isWorking filter
getWorkingProxies_all(pool, country) == getProxies(pool, country)

\* MemStorage.getWorkingProxies(country?)
getWorkingProxies(pool, country) ==
  LET Working(p) == p.isWorking
  IN SelectSeq(getProxies(pool, country), Working)

\* a variant of updateProxy that replaces the record: a field the update does
\* not name goes back to what createProxy gave it
updateProxy_overwrites(pool, id, updates) ==
  IF id \notin DOMAIN pool THEN pool
  ELSE [pool EXCEPT ![id] =
          [f \in DOMAIN pool[id] |->
             IF f \in DOMAIN updates THEN updates[f]
             ELSE IF f \in {"id", "ip", "port"} THEN pool[id][f]
             ELSE CASE f = "country" -> unknown
                    [] f = "isWorking" -> FALSE
                    [] f = "lastChecked" -> 0
                    [] OTHER -> <<>>]]

\* a variant of updateProxy that stores a record for an id that is gone
updateProxy_upserts(pool, id, updates) ==
  [i \in DOMAIN pool \cup {id} |->
     [f \in {"id", "ip", "port", "country", "isWorking", "lastChecked", "responseTime"} |->
        IF f \in DOMAIN updates THEN updates[f]
        ELSE IF i \in DOMAIN pool THEN pool[i][f]
        ELSE CASE f = "id" -> id
               [] f = "ip" -> <<id, id, id, id>>
               [] f = "port" -> 80
               [] f = "country" -> unknown
               [] f = "isWorking" -> FALSE
               [] f = "lastChecked" -> 0
               [] OTHER -> <<>>]]

\* MemStorage.updateProxy: a partial-field merge; nothing when the id is gone
updateProxy(pool, id, updates) ==
  IF id \notin DOMAIN pool THEN pool
  ELSE [pool EXCEPT ![id] =
          [f \in DOMAIN pool[id] |->
             IF f \in DOMAIN updates THEN updates[f] ELSE pool[id][f]]]

\* MemStorage.deleteProxy
deleteProxy(pool, id) == [i \in DOMAIN pool \ {id} |-> pool[i]]

-----------------------------------------------------------------------------
(* Failure tracker *)

FailureThreshold == 5

\* this.failureCounts.get(id) || 0
CountOf(fc, id) == IF id \in DOMAIN fc THEN fc[id] ELSE 0

MapSet(fc, id, v) == [i \in DOMAIN fc \cup {id} |-> IF i = id THEN v ELSE fc[i]]
MapDelete(fc, id) == [i \in DOMAIN fc \ {id} |-> fc[i]]

Max(a, b) == IF a >= b THEN a ELSE b
Min(a, b) == IF a <= b THEN a ELSE b

\* faulty variant of noteSuccess: stores the lowered counter even at zero
noteSuccess_keepsZero(fc, id) ==
  IF id \in DOMAIN fc THEN MapSet(fc, id, Max(0, CountOf(fc, id) - 1)) ELSE fc

\* ProxyService.noteSuccess: the failure-count map afterwards
noteSuccess(fc, id) ==
  IF id \in DOMAIN fc
  THEN LET v == Max(0, CountOf(fc, id) - 1)
       IN IF v = 0 THEN MapDelete(fc, id) ELSE MapSet(fc, id, v)
  ELSE fc

\* faulty variant of noteFailureEvicts: evicts only above the threshold
noteFailureEvicts_late(fc, id, threshold) == CountOf(fc, id) + 1 > threshold

\* faulty variant of noteFailureEvicts: evicts one report early
noteFailureEvicts_early(fc, id, threshold) == CountOf(fc, id) + 1 >= threshold - 1

\* ProxyService.noteFailure: does this report reach the threshold?
noteFailureEvicts(fc, id, threshold) == CountOf(fc, id) + 1 >= threshold

\* ProxyService.noteFailure: the failure-count map afterwards
noteFailureCounts(fc, id, threshold) ==
  IF noteFailureEvicts(fc, id, threshold)
  THEN MapDelete(MapSet(fc, id, CountOf(fc, id) + 1), id)
  ELSE MapSet(fc, id, CountOf(fc, id) + 1)

\* ProxyService.noteFailure: the pool afterwards
noteFailurePool(pool, fc, id, threshold) ==
  IF noteFailureEvicts(fc, id, threshold) THEN deleteProxy(pool, id) ELSE pool


-----------------------------------------------------------------------------
(* Initial states: the pool an ingestion sweep and the geo enrichment leave *)
(* behind, before any verification.  createProxy gives every record         *)
(* isWorking = false and responseTime = null (convertToInsertProxy), and    *)
(* the sweep's dedup gives every record its own (ip, port).                 *)

Ids == 1..MaxProxies

\* the (port, country) a record of the initial pool can have
PoolKinds == { <<80, usa>>, <<80, canada>>, <<SocksPort, usa>> }

\* MemStorage.createProxy applied to convertToInsertProxy's record
createProxy(id, port, country) ==
  [id |-> id, ip |-> <<id, id, id, id>>, port |-> port, country |-> country,
   isWorking |-> FALSE, lastChecked |-> 0, responseTime |-> Null]

\* a fixed order of the kinds: the sweep numbers the records in scrape order,
\* and renaming the ids of a pool changes no behaviour below (every choice
\* among candidates is a random pick or follows a shuffle), so one numbering
\* of each multiset of kinds stands for all of them
KindRank(k) == IF k = <<80, usa>> THEN 1 ELSE IF k = <<80, canada>> THEN 2 ELSE 3

InitialPools ==
  { [i \in Ids |-> createProxy(i, pc[i][1], pc[i][2])] :
      pc \in { f \in [Ids -> PoolKinds] :
                 \A i, j \in Ids : i < j => KindRank(f[i]) <= KindRank(f[j]) } }

NoReport == [kind |-> "none", id |-> 0, v |-> 0, removed |-> FALSE]
IdleVf ==
  [pc |-> "idle", toCheck |-> <<>>, i |-> 0, pending |-> {}, working |-> 0,
   total |-> 0, startedAt |-> 0, atStart |-> << >>, verdicts |-> << >>,
   last |-> <<>>]
IdleIng == [db |-> FALSE, nextId |-> 1, started |-> 0, sweeps |-> << >>]
IdleScr == [pc |-> "idle", src |-> << >>, result |-> <<>>]
IdleGeo == [cache |-> << >>, file |-> << >>, started |-> 0, calls |-> << >>]
IdleStats == [cache |-> <<>>, last |-> <<>>]
IdleSes == [db |-> FALSE, nextId |-> 1, posts |-> << >>, last |-> <<>>]
\* the parts of the service a specification does not follow stay as they are
InitIdle == scr = IdleScr /\ geo = IdleGeo /\ stats = IdleStats /\ ses = IdleSes
IdleSel ==
  [pc |-> "idle", country |-> <<>>, result |-> <<>>, path |-> "none",
   sample |-> <<>>, idx |-> 0, batchesTried |-> 0, pending |-> {}, good |-> {},
   probed |-> {}, updated |-> {},
   atCall |-> [working |-> {}, plausible |-> {}]]
IdleRq ==
  [pc |-> "idle", proxyId |-> <<>>, sessionId |-> <<>>, tried |-> {},
   attempt |-> 1, cur |-> <<>>, response |-> "none", status |-> 0,
   last |-> <<>>, contacted |-> <<>>, n |-> 0]

InitCommon ==
  /\ failureCounts = << >>
  /\ now = 0
  /\ hc = {}
  /\ sel = IdleSel
  /\ rq = IdleRq
  /\ report = NoReport
  /\ streak = [i \in Ids |-> 0]
  /\ nfail = [i \in Ids |-> 0]
  /\ evicted = {}
  /\ vf = IdleVf /\ ing = IdleIng

-----------------------------------------------------------------------------
(* The failure tracker's two operations, as the verifier and the router    *)
(* call them and as they can be called directly.                           *)

\* history kept beside a noteSuccess(id)
HistSuccess(id) ==
  /\ report' = [kind |-> "success", id |-> id, v |-> 0, removed |-> FALSE]
  /\ streak' = [streak EXCEPT ![id] = 0]
  /\ UNCHANGED <<nfail, evicted>>

\* history kept beside a noteFailure(id): v is the counter value the call
\* computed, removed tells whether the call took the record out of the pool
HistFailure(id) ==
  /\ report' = [kind |-> "failure", id |-> id,
                v |-> CountOf(failureCounts, id) + 1,
                removed |-> (id \in DOMAIN proxies /\ id \notin DOMAIN proxies')]
  /\ streak' = [streak EXCEPT ![id] = Min(@ + 1, FailureThreshold)]
  /\ nfail' = [nfail EXCEPT ![id] = Min(@ + 1, FailureThreshold)]
  /\ evicted' = IF id \in DOMAIN proxies /\ id \notin DOMAIN proxies'
                THEN evicted \cup {id} ELSE evicted

\* ProxyService.noteSuccess(id)
NoteSuccess(id) ==
  /\ failureCounts' = noteSuccess(failureCounts, id)
  /\ HistSuccess(id)
  /\ UNCHANGED <<proxies, sessions, strictPick, scr, geo, stats, ses, vf, ing,
                 now, hc, sel, rq>>

\* ProxyService.noteFailure(id), threshold defaulted
NoteFailure(id) ==
  /\ failureCounts' = noteFailureCounts(failureCounts, id, FailureThreshold)
  /\ proxies' = noteFailurePool(proxies, failureCounts, id, FailureThreshold)
  /\ HistFailure(id)
  /\ UNCHANGED <<sessions, strictPick, scr, geo, stats, ses, vf, ing, now, hc,
                 sel, rq>>

InitTracker ==
  /\ InitCommon
  /\ proxies = [i \in Ids |-> createProxy(i, 80, usa)]
  /\ sessions = << >>
  /\ strictPick = FALSE
  /\ InitIdle

NextTracker ==
  \/ \E id \in Ids : NoteSuccess(id)
  \/ \E id \in Ids : NoteFailure(id)

SpecTracker == InitTracker /\ [][NextTracker]_vars

-----------------------------------------------------------------------------
(* The HTTPS probe *)

\* httpsTestUrls, by position
httpsTestUrls == 1..3

\* what the probe targets do when asked through the proxy: TRUE is a response
\* of any status through the tunnel, FALSE an error or a timeout
ProbeAnswers ==
  { a \in [httpsTestUrls -> BOOLEAN] :
      Cardinality({ u \in httpsTestUrls : a[u] }) \in {0, 1, 3} }
\* what a round trip can take, in milliseconds
Latencies == {0, 2}

\* the round trip of each target (neighbouring targets take different times)
TargetTimes ==
  { ms \in [httpsTestUrls -> Latencies] :
      \A u \in httpsTestUrls : u + 1 \in httpsTestUrls => ms[u] # ms[u + 1] }

\* faulty variant of tryTargets: an answer does not end the loop, the last
\* target asked decides
RECURSIVE tryTargets_lastDecides(_, _, _, _)
tryTargets_lastDecides(answers, ms, u, contacted) ==
  IF u \notin httpsTestUrls
  THEN [ok |-> FALSE, rt |-> Null, contacted |-> contacted]
  ELSE IF answers[u] /\ u + 1 \notin httpsTestUrls
  THEN [ok |-> TRUE, rt |-> Some(ms[u]), contacted |-> Append(contacted, u)]
  ELSE tryTargets_lastDecides(answers, ms, u + 1, Append(contacted, u))

\* ProxyService.healthCheckViaProxy, the for loop from target u on: started is
\* read anew for every target, so rt is the round trip of the target that
\* answered; contacted is history, the targets asked so far
RECURSIVE tryTargets(_, _, _, _)
tryTargets(answers, ms, u, contacted) ==
  IF u \notin httpsTestUrls
  THEN [ok |-> FALSE, rt |-> Null, contacted |-> contacted]
  ELSE IF answers[u]
  THEN [ok |-> TRUE, rt |-> Some(ms[u]), contacted |-> Append(contacted, u)]
  ELSE tryTargets(answers, ms, u + 1, Append(contacted, u))

\* ProxyService.healthCheckViaProxy where every round trip takes the same time
healthCheckViaProxy(answers, latency) ==
  LET r == tryTargets(answers, [u \in httpsTestUrls |-> latency], 1, <<>>)
  IN [ok |-> r.ok, rt |-> r.rt]

\* ProxyService.healthCheckProxy, up to the probe: the id of the record to
\* probe (the probe reads the record's ip and port, which no update changes,
\* and the update that follows names the record by its id)
healthCheckTarget(pool, proxyId) ==
  IF proxyId \in DOMAIN pool THEN Some(proxyId)
  ELSE LET workingProxies == getWorkingProxies(pool, <<>>)
       IN IF Len(workingProxies) > 0 THEN Some(workingProxies[1].id) ELSE Null

\* ProxyService.healthCheckProxy: request arrives, probe sent
\* (the model follows one health check at a time: a second one in flight
\* reaches no other pool, since the request step writes nothing)
HealthCheckStart(proxyId) ==
  /\ healthCheckTarget(proxies, proxyId) # Null
  /\ hc = {}
  /\ hc' = hc \cup {healthCheckTarget(proxies, proxyId)[1]}
  /\ report' = NoReport
  /\ UNCHANGED <<proxies, sessions, failureCounts, strictPick, scr, geo, stats,
                 ses, vf, ing, now, sel, rq,
                 streak, nfail, evicted>>

\* ProxyService.healthCheckProxy: probe answered, record updated
HealthCheckDone(id, answers, latency) ==
  /\ id \in hc
  /\ hc' = hc \ {id}
  /\ LET res == healthCheckViaProxy(answers, latency)
     IN proxies' = updateProxy(proxies, id,
                     [isWorking |-> res.ok, lastChecked |-> now,
                      responseTime |-> res.rt])
  /\ report' = NoReport
  /\ UNCHANGED <<sessions, failureCounts, strictPick, scr, geo, stats, ses, vf,
                 ing, now, sel, rq,
                 streak, nfail, evicted>>

-----------------------------------------------------------------------------
(* The pool selector: ProxyService.getProxyForScreen *)

Range(s) == { s[i] : i \in 1..Len(s) }

\* for (const p of more) if (!candidates.find(c => c.id === p.id)) candidates.push(p)
RECURSIVE PushNew(_, _)
PushNew(candidates, more) ==
  IF more = <<>> THEN candidates
  ELSE PushNew(IF \E i \in 1..Len(candidates) : candidates[i].id = Head(more).id
               THEN candidates ELSE Append(candidates, Head(more)),
               Tail(more))

\* faulty variant of LikelyHttp: no port filter
LikelyHttp_noFilter(s) == s

\* the records of s whose port passes isLikelyHttpProxy
LikelyHttp(s) ==
  LET Likely(p) == isLikelyHttpProxy(p.port) IN SelectSeq(s, Likely)

\* the candidates gathered from the requested country
countryCandidates(pool, country) ==
  LET workingInCountry == getWorkingProxies(pool, country)
  IN IF Len(workingInCountry) < 5
     THEN PushNew(workingInCountry, LikelyHttp(getProxies(pool, country)))
     ELSE workingInCountry

\* the globally working proxies the non-strict branch looks at
anyWorking(pool) == LikelyHttp(getWorkingProxies(pool, <<>>))

\* faulty variant of takesGlobalFallback: strict mode is ignored
takesGlobalFallback_ignoresStrict(pool, country, strict) ==
  /\ Len(countryCandidates(pool, country)) < 5
  /\ Len(anyWorking(pool)) > 0

\* does the call return from the global fallback branch?
takesGlobalFallback(pool, country, strict) ==
  /\ Len(countryCandidates(pool, country)) < 5
  /\ ~strict
  /\ Len(anyWorking(pool)) > 0

\* does the call fail fast because strict mode found no candidate?
failsFastStrict(pool, country, strict) ==
  strict /\ Len(countryCandidates(pool, country)) = 0

\* the outcomes of the Fisher-Yates shuffle: every order of the list.  Of a
\* list longer than MaxShuffled the rotations are followed, which put every
\* element at every position
MaxShuffled == 4
Shuffles(s) ==
  IF Len(s) <= MaxShuffled
  THEN { [i \in 1..Len(s) |-> s[f[i]]] :
           f \in { g \in [1..Len(s) -> 1..Len(s)] :
                     \A a, b \in 1..Len(s) : g[a] = g[b] => a = b } }
  ELSE { [i \in 1..Len(s) |-> s[((i + k - 1) % Len(s)) + 1]] : k \in 0..(Len(s) - 1) }

SampleSize == 8
\* a variant of ProbeConcurrency: one probe more in a batch
ProbeConcurrency_wider == SampleSize - 3
ProbeConcurrency == 4
MaxBatches == 2

\* history of a call: what the pool held for the requested country when the
\* call read it (stated on the pool itself, not through the storage queries)
AtCall(pool, country) ==
  [working |-> { pool[i] : i \in { j \in DOMAIN pool :
                   pool[j].country = country /\ pool[j].isWorking } },
   plausible |-> { pool[i] : i \in { j \in DOMAIN pool :
                   pool[j].country = country /\ pool[j].port # SocksPort
                   /\ (pool[j].port \in commonHttpPorts \/ pool[j].port > 1024) } }]

\* the state of a call that has returned; probed and updated are history:
\* the ids the call probed and the ids whose records it wrote
Returned(country, result, path, probed, updated, atCall) ==
  [pc |-> "done", country |-> country, result |-> result, path |-> path,
   sample |-> <<>>, idx |-> 0, batchesTried |-> 0, pending |-> {}, good |-> {},
   probed |-> probed, updated |-> updated, atCall |-> atCall]

\* the head of the probe loop: send the next batch, or give up
ProbeLoop(country, sample, idx, batchesTried, probed, updated, atCall) ==
  IF idx < Len(sample) /\ batchesTried < MaxBatches
  THEN LET batch == (idx + 1)..Min(idx + ProbeConcurrency, Len(sample))
       IN [pc |-> "probing", country |-> country, result |-> Null, path |-> "probe",
           sample |-> sample, idx |-> idx, batchesTried |-> batchesTried,
           pending |-> batch, good |-> {},
           probed |-> probed \cup { sample[i].id : i \in batch },
           updated |-> updated, atCall |-> atCall]
  ELSE Returned(country, Null, "none", probed, updated, atCall)

\* getProxyForScreen from the request to the first probe batch or the return
SelStart(c) ==
  /\ sel.pc \in {"idle", "done"}
  /\ LET country == normalizeCountry(c)
         workingInCountry == getWorkingProxies(proxies, country)
         candidates == IF Len(countryCandidates(proxies, country)) < 5 /\ ~strictPick
                       THEN PushNew(countryCandidates(proxies, country), anyWorking(proxies))
                       ELSE countryCandidates(proxies, country)
         atCall == AtCall(proxies, country)
     IN IF failsFastStrict(proxies, country, strictPick)
        THEN sel' = Returned(country, Null, "strictEmpty", {}, {}, atCall)
        ELSE IF takesGlobalFallback(proxies, country, strictPick)
        THEN \E pick \in Range(anyWorking(proxies)) :
               sel' = Returned(country, Some(pick), "global", {}, {}, atCall)
        ELSE IF Len(workingInCountry) > 0
        THEN \E pick \in Range(workingInCountry) :
               sel' = Returned(country, Some(pick), "fast", {}, {}, atCall)
        ELSE \E shuffled \in Shuffles(candidates) :
               sel' = ProbeLoop(country,
                                SubSeq(shuffled, 1, Min(SampleSize, Len(shuffled))),
                                0, 0, {}, {}, atCall)
  /\ report' = NoReport
  /\ UNCHANGED <<proxies, sessions, failureCounts, strictPick, scr, geo, stats,
                 ses, vf, ing, now, hc, rq,
                 streak, nfail, evicted>>

\* one probe of the batch answers: the record is updated; the last answer of
\* the batch ends the Promise.all and the loop goes on
SelProbeDone(i, answers, latency) ==
  /\ sel.pc = "probing"
  /\ i \in sel.pending
  /\ LET ok == healthCheckViaProxy(answers, latency).ok
         good == IF ok THEN sel.good \cup {i} ELSE sel.good
         pending == sel.pending \ {i}
         updated == sel.updated \cup {sel.sample[i].id}
     IN /\ proxies' = updateProxy(proxies, sel.sample[i].id,
                        [isWorking |-> ok, lastChecked |-> now])
        /\ sel' = IF pending # {}
                  THEN [sel EXCEPT !.pending = pending, !.good = good,
                                   !.updated = updated]
                  ELSE IF good # {}
                  THEN Returned(sel.country,
                                Some(sel.sample[CHOOSE g \in good : \A h \in good : g <= h]),
                                "probe", sel.probed, updated, sel.atCall)
                  ELSE ProbeLoop(sel.country, sel.sample, sel.idx + ProbeConcurrency,
                                 sel.batchesTried + 1, sel.probed, updated, sel.atCall)
  /\ report' = NoReport
  /\ UNCHANGED <<sessions, failureCounts, strictPick, scr, geo, stats, ses, vf,
                 ing, now, hc, rq,
                 streak, nfail, evicted>>

\* the raw country strings requests carry
CountryInputs ==
  { usa, <<"U","S">>, <<"c","a"," ">>, <<" ">>, <<>> }

InitSelector ==
  /\ InitCommon
  /\ proxies \in InitialPools
  /\ sessions = << >>
  /\ strictPick \in BOOLEAN
  /\ InitIdle

\* the proxy ids requests carry: the initial pool's and one that never existed
ProxyIdInputs == Ids \cup {0}

NextSelector ==
  \/ \E proxyId \in ProxyIdInputs : HealthCheckStart(proxyId)
  \/ \E id \in hc, answers \in ProbeAnswers :
       HealthCheckDone(id, answers, 1)
  \/ \E c \in CountryInputs : SelStart(c)
  \/ \E i \in 1..SampleSize, answers \in ProbeAnswers :
       SelProbeDone(i, answers, 1)

SpecSelector == InitSelector /\ [][NextSelector]_vars

-----------------------------------------------------------------------------
(* The request router: GET /api/proxy-fetch *)

maxAttempts == 3

allowedPorts == {80, 8080, 8081, 8082, 8000, 8888, 3128, 8118, 8811}
tier1 == {usa, canada, australia, uk, germany, france, netherlands}

\* MemStorage.updateScreenSession: a partial-field merge
updateScreenSession(sess, id, updates) ==
  IF id \notin DOMAIN sess THEN sess
  ELSE [sess EXCEPT ![id] =
          [f \in DOMAIN sess[id] |->
             IF f \in DOMAIN updates THEN updates[f] ELSE sess[id][f]]]

\* faulty variant of otherCandidates: no port filter
otherCandidates_anyPort(pool, tried, countryToMatch) ==
  { p \in Range(getWorkingProxies(pool, <<>>)) :
      /\ p.id \notin tried
      /\ IF countryToMatch # <<>> THEN p.country = countryToMatch
         ELSE p.country \in tier1 }

\* the candidates of the last resort of pickNextProxy: working, not tried,
\* allowed port, and of the country to match (else of a tier-1 country)
otherCandidates(pool, tried, countryToMatch) ==
  { p \in Range(getWorkingProxies(pool, <<>>)) :
      /\ p.id \notin tried
      /\ p.port \in allowedPorts
      /\ IF countryToMatch # <<>> THEN p.country = countryToMatch
         ELSE p.country \in tier1 }

\* faulty variant of pickNextProxy: the requested proxy is picked every time
pickNextProxy_forgetsTried(pool, sess, tried, proxyId, sessionId) ==
  IF proxyId \in DOMAIN pool
  THEN { [p |-> Some(pool[proxyId]), tried |-> tried, via |-> "requested"] }
  ELSE { [p |-> Null, tried |-> tried, via |-> "none"] }

\* pickNextProxy: every (proxy or null, tried afterwards) it can come to;
\* proxyId is the requested id, sessionId is null or a session id; via names
\* the return statement taken
pickNextProxy(pool, sess, tried, proxyId, sessionId) ==
  IF proxyId \notin tried /\ proxyId \in DOMAIN pool
  THEN { [p |-> Some(pool[proxyId]), tried |-> tried, via |-> "requested"] }
  ELSE
    LET tried1 == tried \cup {proxyId}
        found == sessionId # Null /\ sessionId[1] \in DOMAIN sess
        pinnedId == IF found THEN sess[sessionId[1]].proxyId ELSE Null
        tryPinned == pinnedId # Null /\ pinnedId[1] \notin tried1
    IN IF tryPinned /\ pinnedId[1] \in DOMAIN pool
       THEN { [p |-> Some(pool[pinnedId[1]]), tried |-> tried1, via |-> "pinned"] }
       ELSE
         LET tried2 == IF tryPinned THEN tried1 \cup {pinnedId[1]} ELSE tried1
             targetCountry == IF found THEN sess[sessionId[1]].country ELSE <<>>
             countryToMatch == IF targetCountry # <<>> THEN targetCountry
                               ELSE IF proxyId \in DOMAIN pool
                               THEN pool[proxyId].country ELSE <<>>
             candidates == otherCandidates(pool, tried2, countryToMatch)
         IN IF candidates = {}
            THEN { [p |-> Null, tried |-> tried2, via |-> "none"] }
            ELSE { [p |-> Some(c), tried |-> tried2, via |-> "other"] :
                     c \in candidates }

\* what the target site or the transport answers to one attempt
Statuses == {200, 403, 500}
Answers ==
  { [error |-> TRUE, status |-> 0] } \cup
  { [error |-> FALSE, status |-> st] : st \in Statuses }

\* faulty variant of isUpstreamRejection: no status is a rejection
isUpstreamRejection_never(status) == FALSE

\* faulty variant of isUpstreamRejection: only server errors are rejections
isUpstreamRejection_serverOnly(status) == status >= 500

\* if (response.status >= 400) continue
isUpstreamRejection(status) == status >= 400

\* the pool after a transport failure of an attempt through id
poolAfterTransportFailure(pool, fc, id, t) ==
  noteFailurePool(updateProxy(pool, id, [isWorking |-> FALSE, lastChecked |-> t]),
                  fc, id, FailureThreshold)

\* faulty variant of countsAfterTransportFailure: the failure is not reported
countsAfterTransportFailure_skipped(fc, id) == fc

\* the failure counts after a transport failure of an attempt through id
countsAfterTransportFailure(fc, id) ==
  noteFailureCounts(fc, id, FailureThreshold)

\* faulty variant of poolAfterSuccess: the latency is not recorded
poolAfterSuccess_noLatency(pool, id, t, elapsed) ==
  updateProxy(pool, id, [isWorking |-> TRUE, lastChecked |-> t])

\* the pool after a served attempt through id
poolAfterSuccess(pool, id, t, elapsed) ==
  updateProxy(pool, id, [isWorking |-> TRUE, lastChecked |-> t,
                         responseTime |-> Some(Max(1, elapsed))])

\* faulty variant of sessionsAfterSuccess: every session is pinned to id
sessionsAfterSuccess_all(sess, sessionId, id) ==
  [k \in DOMAIN sess |-> [sess[k] EXCEPT !.proxyId = Some(id)]]

\* the sessions after a served attempt through id for sessionId: every
\* active session of that session's country is pinned to id
sessionsAfterSuccess(sess, sessionId, id) ==
  IF sessionId # Null /\ sessionId[1] \in DOMAIN sess
  THEN [k \in DOMAIN sess |->
          IF sess[k].isActive /\ sess[k].country = sess[sessionId[1]].country
             /\ sess[k].proxyId # Some(id)
          THEN updateScreenSession(sess, k, [proxyId |-> Some(id)])[k]
          ELSE sess[k]]
  ELSE sess

\* a request that has been answered: the handler's locals are gone; the
\* request parameters, the response and the attempts made stay as history
\* (contacted: the proxies the request was sent through, in order; last: the
\* answer to the last attempt; n: the number of requests so far)
Answered(r, response, status) ==
  [r EXCEPT !.pc = "done", !.tried = {}, !.attempt = 1, !.cur = Null,
            !.response = response, !.status = status]

\* the request arrives: 400 without url or proxyId, else the loop starts
FetchStart(hasUrl, proxyId, sessionId) ==
  /\ rq.pc \in {"idle", "done"}
  /\ rq.n < MaxFetches
  /\ rq' = IF ~hasUrl \/ proxyId = Null
           THEN Answered([IdleRq EXCEPT !.n = rq.n + 1], "badRequest", 400)
           ELSE [IdleRq EXCEPT !.pc = "pick", !.proxyId = proxyId,
                               !.sessionId = sessionId, !.n = rq.n + 1]
  /\ report' = NoReport
  /\ UNCHANGED <<proxies, sessions, failureCounts, strictPick, scr, geo, stats,
                 ses, vf, ing, now, hc, sel,
                 streak, nfail, evicted>>

\* the head of the loop: the next proxy is picked and the request is sent
\* through it, or the attempts are over and the failure page is returned
FetchPick ==
  /\ rq.pc = "pick"
  /\ IF rq.attempt <= maxAttempts
     THEN \E pick \in pickNextProxy(proxies, sessions, rq.tried,
                                     rq.proxyId[1], rq.sessionId) :
            rq' = IF pick.p = Null
                  THEN Answered(rq, "failurePage", 500)
                  ELSE [rq EXCEPT !.pc = "wait", !.cur = pick.p,
                                  !.tried = pick.tried \cup {pick.p[1].id},
                                  !.contacted =
                                     Append(@, [id |-> pick.p[1].id,
                                                via |-> pick.via,
                                                port |-> pick.p[1].port,
                                                country |-> pick.p[1].country,
                                                isWorking |-> pick.p[1].isWorking])]
     ELSE rq' = Answered(rq, "failurePage", 500)
  /\ report' = NoReport
  /\ UNCHANGED <<proxies, sessions, failureCounts, strictPick, scr, geo, stats,
                 ses, vf, ing, now, hc, sel,
                 streak, nfail, evicted>>

\* the attempt is answered by the target site, or fails in transport, elapsed
\* milliseconds after it was sent (Date.now() - startedAt)
FetchResponse(answer, elapsed) ==
  /\ rq.pc = "wait"
  /\ now + elapsed <= MaxTime
  /\ now' = now + elapsed
  /\ LET id == rq.cur[1].id
         logged == [rq EXCEPT !.last = Some([id |-> id, error |-> answer.error,
                                             status |-> answer.status,
                                             elapsed |-> elapsed])]
     IN \/ /\ answer.error
           /\ proxies' = poolAfterTransportFailure(proxies, failureCounts, id, now')
           /\ failureCounts' = countsAfterTransportFailure(failureCounts, id)
           /\ HistFailure(id)
           /\ rq' = [logged EXCEPT !.pc = "pick", !.cur = Null, !.attempt = @ + 1]
           /\ UNCHANGED sessions
        \/ /\ ~answer.error
           /\ isUpstreamRejection(answer.status)
           /\ rq' = [logged EXCEPT !.pc = "pick", !.cur = Null, !.attempt = @ + 1]
           /\ report' = NoReport
           /\ UNCHANGED <<proxies, failureCounts, sessions, streak, nfail, evicted>>
        \/ /\ ~answer.error
           /\ ~isUpstreamRejection(answer.status)
           /\ proxies' = poolAfterSuccess(proxies, id, now', elapsed)
           /\ failureCounts' = noteSuccess(failureCounts, id)
           /\ HistSuccess(id)
           /\ sessions' = sessionsAfterSuccess(sessions, rq.sessionId, id)
           /\ rq' = Answered(logged, "page", answer.status)
  /\ UNCHANGED <<strictPick, scr, geo, stats, ses, vf, ing, hc, sel>>

\* the sessions the router finds: none, or one session of screen 1 pinned to
\* a proxy of the pool
SessionCountries == {usa, canada}
InitialSessions ==
  { << >> } \cup
  { [k \in {1} |-> [id |-> 1, screenNumber |-> 1, country |-> c,
                    proxyId |-> Some(i), isActive |-> TRUE]] :
      c \in SessionCountries, i \in Ids }

SessionIdInputs == {Null, Some(1)}
ProxyIdParams == {Null} \cup { Some(i) : i \in ProxyIdInputs }

\* the pool and the counters after the verifier has failed proxy id in each
\* of its first k sweeps (verifyAllProxies: isWorking = false, noteFailure)
SweepsFailed == {0, FailureThreshold - 1}

InitRouter ==
  /\ now = 0 /\ hc = {} /\ sel = IdleSel /\ rq = IdleRq
  /\ report = NoReport /\ evicted = {}
  /\ vf = IdleVf /\ ing = IdleIng
  /\ \E pool \in InitialPools, k \in SweepsFailed :
       /\ proxies = pool
       /\ failureCounts = IF k = 0 THEN << >> ELSE MapSet(<< >>, 1, k)
       /\ streak = [i \in Ids |-> IF i = 1 THEN k ELSE 0]
       /\ nfail = [i \in Ids |-> IF i = 1 THEN k ELSE 0]
  /\ sessions \in InitialSessions
  /\ strictPick = FALSE
  /\ InitIdle

NextRouter ==
  \/ \E hasUrl \in BOOLEAN, proxyId \in ProxyIdParams, sessionId \in SessionIdInputs :
       FetchStart(hasUrl, proxyId, sessionId)
  \/ FetchPick
  \/ \E answer \in Answers, elapsed \in Latencies : FetchResponse(answer, elapsed)

SpecRouter == InitRouter /\ [][NextRouter]_vars

-----------------------------------------------------------------------------
(* The router over a verified pool with several sessions *)

\* a larger pool: ids and, by position, the (port, country) of each record
RotationIds == 1..(MaxProxies + 2)
RotationKind(i) ==
  CASE i % 4 = 1 -> <<80, usa>>
    [] i % 4 = 2 -> <<8080, usa>>
    [] i % 4 = 3 -> <<80, canada>>
    [] OTHER -> <<SocksPort, usa>>

\* the record a verification leaves: verifyAllProxies / healthCheckProxy
\* write isWorking, lastChecked and responseTime
verified(p, ok) ==
  [p EXCEPT !.isWorking = ok, !.responseTime = IF ok THEN Some(1) ELSE Null]

\* the pools of RotationIds in which the records of W are marked working
RotationPools ==
  { [i \in RotationIds |->
       verified(createProxy(i, RotationKind(i)[1], RotationKind(i)[2]), i \in W)] :
      W \in SUBSET RotationIds }

\* three sessions (POST /api/screen-sessions keeps the client's proxyId):
\* two of usa, the second active or not, and one of canada; the first is
\* pinned to any record of the pool or to id 0, a record that no longer exists
RotationSessions ==
  { [k \in {1, 2, 3} |->
       [id |-> k, screenNumber |-> k,
        country |-> IF k = 3 THEN canada ELSE usa,
        proxyId |-> IF k = 1 THEN Some(i) ELSE Some(k),
        isActive |-> IF k = 2 THEN a ELSE TRUE]] :
      i \in RotationIds \cup {0}, a \in BOOLEAN }

\* sessionId of a request: none, a session, or an id that names no session
RotationSessionIds == {Null, Some(1), Some(2), Some(3), Some(9)}
RotationProxyIds == {Null} \cup { Some(i) : i \in RotationIds \cup {0} }

\* the request watched is the last one the bound on requests admits
InitRotation ==
  /\ now = 0 /\ hc = {} /\ sel = IdleSel
  /\ rq = [IdleRq EXCEPT !.n = MaxFetches - 1]
  /\ report = NoReport /\ evicted = {}
  /\ vf = IdleVf /\ ing = IdleIng
  /\ proxies \in RotationPools
  /\ failureCounts = << >>
  /\ streak = [i \in RotationIds |-> 0]
  /\ nfail = [i \in RotationIds |-> 0]
  /\ sessions \in RotationSessions
  /\ strictPick = FALSE
  /\ InitIdle

NextRotation ==
  \/ \E hasUrl \in BOOLEAN, proxyId \in RotationProxyIds,
        sessionId \in RotationSessionIds :
       FetchStart(hasUrl, proxyId, sessionId)
  \/ FetchPick
  \/ \E answer \in Answers, elapsed \in Latencies : FetchResponse(answer, elapsed)

SpecRotation == InitRotation /\ [][NextRotation]_vars

-----------------------------------------------------------------------------
(* The batch verifier: ProxyService.verifyAllProxies.  One pass is followed *)
(* at a time and nothing else writes to the pool while it runs.  The        *)
(* records of the modelled pools carry a known country, so the geolocation  *)
(* a successful probe of an unknown-country record asks for never starts.   *)

batchSize == 100

\* allProxies.filter(p => this.isLikelyHttpProxy(p.port)), by id
toCheckOf(pool) ==
  LET all == getProxies(pool, <<>>)
      Likely(p) == isLikelyHttpProxy(p.port)
      kept == SelectSeq(all, Likely)
  IN [k \in 1..Len(kept) |-> kept[k].id]

\* the head of the batch loop: send the probes of the next batch, or return
\* { total, working }
VerifyLoop(v, i) ==
  IF i < Len(v.toCheck)
  THEN [v EXCEPT !.pc = "running", !.i = i,
                 !.pending = { v.toCheck[k] :
                                 k \in (i + 1)..Min(i + batchSize, Len(v.toCheck)) }]
  ELSE [v EXCEPT !.pc = "done", !.i = i, !.pending = {},
                 !.total = Len(v.toCheck)]

\* faulty variant of verifyUpdates: the measured time is kept from the record
verifyUpdates_keepsTime(pool, id, res, t) ==
  [isWorking |-> res.ok, lastChecked |-> t,
   responseTime |-> IF id \in DOMAIN pool THEN pool[id].responseTime ELSE Null]

\* { isWorking: ok, lastChecked: new Date(), responseTime: rt ?? null }
verifyUpdates(pool, id, res, t) ==
  [isWorking |-> res.ok, lastChecked |-> t, responseTime |-> res.rt]

\* the pass as it stands once it has read the pool at time t
StartedPass(pool, t) ==
  VerifyLoop([IdleVf EXCEPT !.toCheck = toCheckOf(pool), !.startedAt = t,
                            !.atStart = pool], 0)

\* verifyAllProxies from the call to the probes of the first batch.  A pass
\* starts later than everything before it: the clock moves on.  atStart,
\* verdicts and last are history: the pool the pass read, the verdict of
\* every probe answered, and what the targets of the last probe did
VerifyStart ==
  /\ vf.pc \in {"idle", "done"}
  /\ now < MaxTime
  /\ now' = now + 1
  /\ vf' = StartedPass(proxies, now + 1)
  /\ report' = NoReport
  /\ UNCHANGED <<proxies, sessions, failureCounts, strictPick, scr, geo, stats,
                 ses, ing, hc, sel, rq,
                 streak, nfail, evicted>>

\* one probe of the batch answers: the record is rewritten and the tracker
\* told; the last answer of the batch ends the Promise.all
VerifyProbeDone(id, answers, ms) ==
  /\ vf.pc = "running"
  /\ id \in vf.pending
  /\ LET run == tryTargets(answers, ms, 1, <<>>)
         res == [ok |-> run.ok, rt |-> run.rt]
         written == updateProxy(proxies, id, verifyUpdates(proxies, id, res, now))
         v == [vf EXCEPT !.pending = vf.pending \ {id},
                         !.working = IF res.ok THEN vf.working + 1 ELSE vf.working,
                         !.verdicts = MapSet(vf.verdicts, id, res),
                         !.last = Some([answers |-> answers, ms |-> ms, run |-> run])]
     IN /\ IF res.ok
           THEN /\ proxies' = written
                /\ failureCounts' = noteSuccess(failureCounts, id)
                /\ HistSuccess(id)
           ELSE /\ proxies' = noteFailurePool(written, failureCounts, id, FailureThreshold)
                /\ failureCounts' = noteFailureCounts(failureCounts, id, FailureThreshold)
                /\ HistFailure(id)
        /\ vf' = IF v.pending # {} THEN v ELSE VerifyLoop(v, vf.i + batchSize)
  /\ UNCHANGED <<sessions, strictPick, scr, geo, stats, ses, ing, now, hc, sel, rq>>

InitVerifier ==
  /\ now = 0 /\ hc = {} /\ sel = IdleSel /\ rq = IdleRq
  /\ report = NoReport /\ evicted = {}
  /\ vf = IdleVf /\ ing = IdleIng
  /\ \E pool \in InitialPools, k \in SweepsFailed :
       /\ proxies = pool
       /\ failureCounts = IF k = 0 THEN << >> ELSE MapSet(<< >>, 1, k)
       /\ streak = [i \in Ids |-> IF i = 1 THEN k ELSE 0]
       /\ nfail = [i \in Ids |-> IF i = 1 THEN k ELSE 0]
  /\ sessions = << >>
  /\ strictPick = FALSE
  /\ InitIdle

NextVerifier ==
  \/ VerifyStart
  \/ \E id \in Ids, answers \in ProbeAnswers, ms \in TargetTimes :
       VerifyProbeDone(id, answers, ms)

SpecVerifier == InitVerifier /\ [][NextVerifier]_vars

-----------------------------------------------------------------------------
(* The scraper: ProxyScraper.scrapeAllSources.  A source's body is the     *)
(* sequence of its lines (data.split on the newline); strings are          *)
(* sequences of one-character strings.                                     *)

\* the sequences over S of length at most n
RECURSIVE SeqsUpTo(_, _)
SeqsUpTo(S, n) ==
  IF n = 0 THEN { <<>> }
  ELSE SeqsUpTo(S, n - 1) \cup
       { Append(q, a) : q \in { r \in SeqsUpTo(S, n - 1) : Len(r) = n - 1 }, a \in S }

\* String.prototype.split on a one-character separator
RECURSIVE split(_, _)
split(s, sep) ==
  IF \A i \in 1..Len(s) : s[i] # sep THEN <<s>>
  ELSE LET k == CHOOSE i \in 1..Len(s) : s[i] = sep /\ \A j \in 1..(i - 1) : s[j] # sep
       IN <<SubSeq(s, 1, k - 1)>> \o split(SubSeq(s, k + 1, Len(s)), sep)

Digits == {"0", "1", "2", "3", "4", "5", "6", "7", "8", "9"}
DigitValue(ch) ==
  CASE ch = "0" -> 0 [] ch = "1" -> 1 [] ch = "2" -> 2 [] ch = "3" -> 3
    [] ch = "4" -> 4 [] ch = "5" -> 5 [] ch = "6" -> 6 [] ch = "7" -> 7
    [] ch = "8" -> 8 [] ch = "9" -> 9

\* one octet of ipRegex: 25[0-5] | 2[0-4][0-9] | [01]?[0-9][0-9]?
isOctet(t) ==
  \/ Len(t) = 3 /\ t[1] = "2" /\ t[2] = "5" /\ t[3] \in {"0", "1", "2", "3", "4", "5"}
  \/ Len(t) = 3 /\ t[1] = "2" /\ t[2] \in {"0", "1", "2", "3", "4"} /\ t[3] \in Digits
  \/ /\ Len(t) \in {1, 2, 3}
     /\ \A i \in 1..Len(t) : t[i] \in Digits
     /\ Len(t) = 3 => t[1] \in {"0", "1"}

\* ProxyScraper.isValidIP: four octets with dots between, nothing else
isValidIP(ip) ==
  LET parts == split(ip, ".")
  IN Len(parts) = 4 /\ \A i \in 1..4 : isOctet(parts[i])

\* the value of the digits s starts with, after acc; Null when acc is Null
\* and s starts with no digit
RECURSIVE leadingDigits(_, _)
leadingDigits(s, acc) ==
  IF s # <<>> /\ Head(s) \in Digits
  THEN leadingDigits(Tail(s),
                     Some((IF acc = Null THEN 0 ELSE acc[1]) * 10 + DigitValue(Head(s))))
  ELSE acc

\* parseInt: leading blanks and a sign are skipped, the leading digits are
\* read, whatever follows is ignored; Null stands for NaN
parseInt(s) ==
  LET t == trimStart(s)
      neg == t # <<>> /\ Head(t) = "-"
      u == IF t # <<>> /\ Head(t) \in {"-", "+"} THEN Tail(t) ELSE t
      v == leadingDigits(u, Null)
  IN IF v = Null THEN Null ELSE IF neg THEN Some(0 - v[1]) ELSE v

\* faulty variant of parseLine: the port must be digits only
parseLine_numericPort(line) ==
  LET parts == split(trim(line), ":")
  IN IF /\ Len(parts) >= 2 /\ parts[1] # <<>> /\ parts[2] # <<>>
        /\ isValidIP(parts[1])
        /\ \A i \in 1..Len(trim(parts[2])) : trim(parts[2])[i] \in Digits
        /\ trim(parts[2]) # <<>>
     THEN <<[ip |-> trim(parts[1]), port |-> parseInt(trim(parts[2]))]>>
     ELSE <<>>

\* the body of the parsers' loop: the candidates one line gives, none or one
\* (const [ip, port] = line.trim().split(':'); if (ip && port && isValidIP(ip)) ...)
parseLine(line) ==
  LET parts == split(trim(line), ":")
  IN IF /\ Len(parts) >= 2 /\ parts[1] # <<>> /\ parts[2] # <<>>
        /\ isValidIP(parts[1])
     THEN <<[ip |-> trim(parts[1]), port |-> parseInt(trim(parts[2]))]>>
     ELSE <<>>

\* ProxyScraper.parseSimpleFormat and parseProxyScrapeFormat (the same code):
\* the blank lines are dropped, the others parsed in order
RECURSIVE parseSimpleFormat(_)
parseSimpleFormat(lines) ==
  IF lines = <<>> THEN <<>>
  ELSE (IF trim(Head(lines)) = <<>> THEN <<>> ELSE parseLine(Head(lines)))
       \o parseSimpleFormat(Tail(lines))

\* the key deduplicateProxies builds, `${proxy.ip}:${proxy.port}`: an ip
\* holds no colon, so the text decides the pair and the pair the text
dedupKey(p) == <<p.ip, p.port>>

\* faulty variant of dedupFrom: a repeated key replaces the entry kept
RECURSIVE dedupFrom_lastWins(_, _)
dedupFrom_lastWins(list, seenKeys) ==
  IF list = <<>> THEN <<>>
  ELSE IF \E i \in 1..Len(Tail(list)) : dedupKey(Tail(list)[i]) = dedupKey(Head(list))
  THEN dedupFrom_lastWins(Tail(list), seenKeys)
  ELSE <<Head(list)>> \o dedupFrom_lastWins(Tail(list), seenKeys)

\* ProxyScraper.deduplicateProxies: the first entry of every ip:port key
RECURSIVE dedupFrom(_, _)
dedupFrom(list, seenKeys) ==
  IF list = <<>> THEN <<>>
  ELSE IF dedupKey(Head(list)) \in seenKeys THEN dedupFrom(Tail(list), seenKeys)
  ELSE <<Head(list)>> \o dedupFrom(Tail(list), seenKeys \cup {dedupKey(Head(list))})
deduplicateProxies(list) == dedupFrom(list, {})

\* the lines the sources send
Lines ==
  { <<"1",".","1",".","1",".","1",":","8","0">>,
    <<" ","1",".","1",".","1",".","1",":","8","0"," ">>,
    <<"1",".","1",".","1",".","1",":","8","0","8","0">>,
    <<"2","5","6",".","1",".","1",".","1",":","8","0">>,
    <<"1",".","1",".","1",".","1">>,
    <<"1",".","1",".","1",".","1",":","x">> }
MaxLines == 2
Bodies == SeqsUpTo(Lines, MaxLines)

\* two of the sources stand for all of them
Sources == {1, 2}

\* scrapeSourceWithRetry(source, 1)
retries == 1

\* a source whose promise inside Promise.allSettled has settled
Settled(src) == src.pc \in {"ok", "skipped"}

\* a variant in which one source that gave up empties the whole result
RECURSIVE flatFrom_allOrNothing(_, _)
flatFrom_allOrNothing(srcs, k) ==
  IF k \notin DOMAIN srcs \/ \E j \in DOMAIN srcs : srcs[j].pc = "skipped" THEN <<>>
  ELSE (IF srcs[k].pc = "ok" THEN srcs[k].cands ELSE <<>>)
       \o flatFrom_allOrNothing(srcs, k + 1)

\* the candidates of the sources that succeeded, in the order of the sources
\* (settled.flatMap)
RECURSIVE flatFrom(_, _)
flatFrom(srcs, k) ==
  IF k \notin DOMAIN srcs THEN <<>>
  ELSE (IF srcs[k].pc = "ok" THEN srcs[k].cands ELSE <<>>)
       \o flatFrom(srcs, k + 1)

\* the call after one of its sources moved: when all have settled, the
\* merged list is deduplicated and returned
AfterSource(srcs) ==
  IF \A k \in DOMAIN srcs : Settled(srcs[k])
  THEN [pc |-> "done", src |-> srcs, result |-> deduplicateProxies(flatFrom(srcs, 1))]
  ELSE [pc |-> "running", src |-> srcs, result |-> <<>>]

\* scrapeAllSources is called: every source is asked.  body, attempt and
\* timedOut stay as history once a source has settled; cands is the value of
\* the source's promise
ScrapeStart ==
  /\ scr.pc \in {"idle", "done"}
  /\ scr' = [pc |-> "running", result |-> <<>>,
             src |-> [k \in Sources |->
                        [pc |-> "asked", attempt |-> 0, body |-> <<>>, cands |-> <<>>,
                         timedOut |-> FALSE]]]
  /\ UNCHANGED <<proxies, sessions, failureCounts, strictPick, now, hc, sel, rq,
                 report, streak, nfail, evicted, vf, ing, geo, stats, ses>>

\* a source answers with a text body: the parser's candidates are what its
\* promise resolves with
SourceAnswers(k, body) ==
  /\ scr.pc = "running"
  /\ scr.src[k].pc = "asked"
  /\ scr' = AfterSource([scr.src EXCEPT ![k].pc = "ok", ![k].body = body,
                                         ![k].cands = parseSimpleFormat(body)])
  /\ UNCHANGED <<proxies, sessions, failureCounts, strictPick, now, hc, sel, rq,
                 report, streak, nfail, evicted, vf, ing, geo, stats, ses>>

\* a request fails (network error, error status, a body the parser throws
\* on): attempt++ and the wait of 500 * attempt ms begins
SourceFails(k) ==
  /\ scr.pc = "running"
  /\ scr.src[k].pc = "asked"
  /\ scr' = AfterSource([scr.src EXCEPT ![k].pc = "waiting", ![k].attempt = @ + 1])
  /\ UNCHANGED <<proxies, sessions, failureCounts, strictPick, now, hc, sel, rq,
                 report, streak, nfail, evicted, vf, ing, geo, stats, ses>>

\* the wait ends: the source is asked again while attempt <= retries, else
\* the last error is thrown, caught, and the source gives no candidates
SourceWaitEnds(k) ==
  /\ scr.pc = "running"
  /\ scr.src[k].pc = "waiting"
  /\ scr' = AfterSource([scr.src EXCEPT ![k].pc =
                           IF scr.src[k].attempt <= retries THEN "asked" ELSE "skipped"])
  /\ UNCHANGED <<proxies, sessions, failureCounts, strictPick, now, hc, sel, rq,
                 report, streak, nfail, evicted, vf, ing, geo, stats, ses>>

\* withTimeout's 15 s pass before the source is through: caught, and the
\* source gives no candidates whatever its request does later
SourceTimesOut(k) ==
  /\ scr.pc = "running"
  /\ ~Settled(scr.src[k])
  /\ scr' = AfterSource([scr.src EXCEPT ![k].pc = "skipped", ![k].timedOut = TRUE])
  /\ UNCHANGED <<proxies, sessions, failureCounts, strictPick, now, hc, sel, rq,
                 report, streak, nfail, evicted, vf, ing, geo, stats, ses>>

InitScrape ==
  /\ InitCommon
  /\ proxies = << >>
  /\ sessions = << >>
  /\ strictPick = FALSE
  /\ InitIdle

\* what moves a call under way: an answer, a failure, a timer
ScrapeProgress ==
  \/ \E k \in Sources, body \in Bodies : SourceAnswers(k, body)
  \/ \E k \in Sources : SourceFails(k)
  \/ \E k \in Sources : SourceWaitEnds(k)
  \/ \E k \in Sources : SourceTimesOut(k)

NextScrape == ScrapeStart \/ ScrapeProgress

SpecScrape == InitScrape /\ [][NextScrape]_vars

\* the timer of withTimeout does fire for a source that has not settled
SpecScrapeFair == SpecScrape /\ \A k \in Sources : WF_vars(SourceTimesOut(k))

-----------------------------------------------------------------------------
(* Ingestion: ProxyService.updateProxies, started by the five-minute timer  *)
(* and by POST /api/update-proxies, so that sweeps can overlap.  Under      *)
(* MemStorage the storage calls of a sweep only yield to microtasks, and    *)
(* the sweep runs from the scrape's answer to its end in one step; under    *)
(* DbStorage every storage call waits for the database, and each statement  *)
(* is a step.  The parsers set no country, so every record is created with  *)
(* country unknown.  The country service is out of reach here and the geo   *)
(* cache empty: the enrichment the sweep kicks off and the lookup of a     *)
(* verified record return unknown and write nothing.                        *)

\* the candidates the sources list, ips by number: one ip, two ports
Addresses == { [ip |-> <<1, 1, 1, 1>>, port |-> 80], [ip |-> <<1, 1, 1, 1>>, port |-> 8080] }

\* what the sources return, concatenated: at most MaxProxies entries
Scrapes == SeqsUpTo(Addresses, MaxProxies)

\* ProxyScraper.scrapeAllSources, from the sources' answers on
scrapeAllSources(raw) == deduplicateProxies(raw)

\* a variant of insertRow that creates the record with a measured latency
insertRow_withLatency(pool, id, a, t) ==
  [i \in DOMAIN pool \cup {id} |->
     IF i = id
     THEN [id |-> id, ip |-> a.ip, port |-> a.port,
           country |-> unknown, isWorking |-> FALSE, lastChecked |-> t,
           responseTime |-> Some(0)]
     ELSE pool[i]]

\* storage.createProxy(convertToInsertProxy(scraped)) under a fresh id
insertRow(pool, id, a, t) ==
  [i \in DOMAIN pool \cup {id} |->
     IF i = id
     THEN [id |-> id, ip |-> a.ip, port |-> a.port,
           country |-> unknown, isWorking |-> FALSE, lastChecked |-> t,
           responseTime |-> Null]
     ELSE pool[i]]

\* the for loop of updateProxies over list, ids counted from id
RECURSIVE insertAll(_, _, _, _)
insertAll(pool, id, list, t) ==
  IF list = <<>> THEN pool
  ELSE insertAll(insertRow(pool, id, Head(list), t), id + 1, Tail(list), t)

\* the ids a record can get
IngestIds == 1..(Cardinality(Addresses) * (MaxSweeps + 1))

\* a sweep: where it stands, the candidates it scraped, the next one to
\* insert.  alone is history: whether no other sweep was under way at any
\* time of this one; a sweep that completed alone keeps its candidates
IdleSweep == [pc |-> "idle", list |-> <<>>, k |-> 0, alone |-> TRUE]
UnderWay(sw) == sw.pc \in {"scraping", "clearing", "inserting"}
Completed(sw, list) ==
  [sw EXCEPT !.pc = "done", !.list = IF sw.alone THEN list ELSE <<>>, !.k = 0]

\* updateProxies is called: the sources are asked
SweepStart ==
  /\ ing.started < MaxSweeps
  /\ ing' = [ing EXCEPT !.started = @ + 1,
                        !.sweeps = [s \in DOMAIN ing.sweeps |->
                          IF s = ing.started + 1
                          THEN [IdleSweep EXCEPT !.pc = "scraping",
                                  !.alone = \A o \in DOMAIN ing.sweeps : ~UnderWay(ing.sweeps[o])]
                          ELSE IF UnderWay(ing.sweeps[s])
                          THEN [ing.sweeps[s] EXCEPT !.alone = FALSE]
                          ELSE ing.sweeps[s]]]
  /\ report' = NoReport
  /\ UNCHANGED <<proxies, sessions, failureCounts, strictPick, scr, geo, stats,
                 ses, vf, now, hc, sel, rq,
                 streak, nfail, evicted>>

\* the sources have answered.  MemStorage: the pool is cleared and refilled
\* and the background verification reads it and sends its first probes (a
\* pass already followed is left to run).  DbStorage: the DELETE is sent
SweepScraped(s, raw) ==
  /\ s \in DOMAIN ing.sweeps
  /\ ing.sweeps[s].pc = "scraping"
  /\ report' = NoReport
  /\ LET list == scrapeAllSources(raw)
     IN IF ing.db
        THEN /\ ing' = [ing EXCEPT !.sweeps[s] = [@ EXCEPT !.pc = "clearing", !.list = list]]
             /\ UNCHANGED <<proxies, vf, now>>
        ELSE /\ proxies' = insertAll(<< >>, ing.nextId, list, now)
             /\ ing' = [ing EXCEPT !.nextId = @ + Len(list),
                                   !.sweeps[s] = Completed(@, list)]
             /\ vf' = IF vf.pc = "running" THEN vf ELSE StartedPass(proxies', now)
             /\ UNCHANGED now
  /\ UNCHANGED <<sessions, failureCounts, strictPick, scr, geo, stats, ses, hc,
                 sel, rq,
                 streak, nfail, evicted>>

\* DbStorage: the DELETE has run; the first INSERT is sent, if any
SweepCleared(s) ==
  /\ s \in DOMAIN ing.sweeps
  /\ ing.sweeps[s].pc = "clearing"
  /\ proxies' = << >>
  /\ ing' = [ing EXCEPT !.sweeps[s] =
               IF ing.sweeps[s].list = <<>> THEN Completed(@, <<>>)
               ELSE [@ EXCEPT !.pc = "inserting", !.k = 1]]
  /\ report' = NoReport
  /\ UNCHANGED <<sessions, failureCounts, strictPick, scr, geo, stats, ses, vf,
                 now, hc, sel, rq,
                 streak, nfail, evicted>>

\* DbStorage: an INSERT has run; the next one is sent, or the sweep ends and
\* kicks off the background verification, whose read of the pool is a later
\* step (VerifyStart)
SweepInserted(s) ==
  /\ s \in DOMAIN ing.sweeps
  /\ ing.sweeps[s].pc = "inserting"
  /\ LET sw == ing.sweeps[s]
     IN /\ proxies' = insertRow(proxies, ing.nextId, sw.list[sw.k], now)
        /\ ing' = [ing EXCEPT !.nextId = @ + 1,
                              !.sweeps[s] =
                                IF sw.k = Len(sw.list)
                                THEN Completed(sw, sw.list)
                                ELSE [sw EXCEPT !.k = sw.k + 1]]
  /\ report' = NoReport
  /\ UNCHANGED <<sessions, failureCounts, strictPick, scr, geo, stats, ses, vf,
                 now, hc, sel, rq,
                 streak, nfail, evicted>>

\* what the first sweep scraped: every listed pair, one of them twice
FirstScrape ==
  << [ip |-> <<1, 1, 1, 1>>, port |-> 80], [ip |-> <<1, 1, 1, 1>>, port |-> 8080],
     [ip |-> <<1, 1, 1, 1>>, port |-> 80] >>

\* the service after its first sweep and some verification: one record per
\* listed pair, the first one failure from eviction; either storage; the
\* revalidation timer can fire once more
InitIngest ==
  /\ now = MaxTime - 1 /\ hc = {} /\ sel = IdleSel /\ rq = IdleRq
  /\ report = NoReport /\ evicted = {} /\ vf = IdleVf
  /\ proxies = insertAll(<< >>, 1, scrapeAllSources(FirstScrape), 0)
  /\ \E db \in BOOLEAN :
       ing = [db |-> db, nextId |-> Len(scrapeAllSources(FirstScrape)) + 1,
              started |-> 0, sweeps |-> [s \in 1..MaxSweeps |-> IdleSweep]]
  /\ failureCounts = MapSet(<< >>, 1, FailureThreshold - 1)
  /\ streak = [i \in IngestIds |-> IF i = 1 THEN FailureThreshold - 1 ELSE 0]
  /\ nfail = [i \in IngestIds |-> IF i = 1 THEN FailureThreshold - 1 ELSE 0]
  /\ sessions = << >>
  /\ strictPick = FALSE
  /\ InitIdle

\* the probe targets all answer or all fail
Unanimous == { a \in ProbeAnswers : \A u, w \in httpsTestUrls : a[u] = a[w] }

NextIngest ==
  \/ SweepStart
  \/ \E s \in 1..MaxSweeps, raw \in Scrapes : SweepScraped(s, raw)
  \/ \E s \in 1..MaxSweeps : SweepCleared(s)
  \/ \E s \in 1..MaxSweeps : SweepInserted(s)
  \/ VerifyStart
  \/ \E id \in vf.pending, answers \in Unanimous :
       VerifyProbeDone(id, answers, [u \in httpsTestUrls |-> 2])

SpecIngest == InitIngest /\ [][NextIngest]_vars

-----------------------------------------------------------------------------
(* Geolocation: ProxyScraper.geolocate, called for one ip by the verifier  *)
(* and, five at a time, by the enrichment sweep, so that calls overlap.    *)
(* geo.cache is the geoCache map, geo.file what geoCache.json holds.  A     *)
(* call that misses the cache waits for the country service; a call that   *)
(* hits returns in the step it is made.                                     *)

\* String.prototype.toUpperCase on one character
UpperChar(ch) ==
  CASE ch = "a" -> "A" [] ch = "b" -> "B" [] ch = "c" -> "C" [] ch = "d" -> "D"
    [] ch = "e" -> "E" [] ch = "f" -> "F" [] ch = "g" -> "G" [] ch = "h" -> "H"
    [] ch = "i" -> "I" [] ch = "j" -> "J" [] ch = "k" -> "K" [] ch = "l" -> "L"
    [] ch = "m" -> "M" [] ch = "n" -> "N" [] ch = "o" -> "O" [] ch = "p" -> "P"
    [] ch = "q" -> "Q" [] ch = "r" -> "R" [] ch = "s" -> "S" [] ch = "t" -> "T"
    [] ch = "u" -> "U" [] ch = "v" -> "V" [] ch = "w" -> "W" [] ch = "x" -> "X"
    [] ch = "y" -> "Y" [] ch = "z" -> "Z" [] OTHER -> ch

toUpperCase(s) == [i \in 1..Len(s) |-> UpperChar(s[i])]

\* ProxyScraper.mapIsoToAppCountry
mapIsoToAppCountry(iso) ==
  LET code == toUpperCase(iso)
  IN CASE code = <<"U","S">> -> usa
       [] code = <<"C","A">> -> canada
       [] code = <<"A","U">> -> australia
       [] code = <<"G","B">> \/ code = <<"U","K">> -> uk
       [] code = <<"D","E">> -> germany
       [] code = <<"F","R">> -> france
       [] code = <<"N","L">> -> netherlands
       [] OTHER -> unknown

\* the ips looked up, and the country codes the service names
GeoIps == { <<1, 1, 1, 1>>, <<2, 2, 2, 2>> }
IsoCodes == { <<"U","S">>, <<"c","a">>, <<"J","P">> }

\* what the country service does with a lookup: no answer in 2 s, a network
\* error or an error status (axios throws); a body whose status is not
\* success; a body without country code; a body naming a country
GeoAnswers ==
  { [throws |-> TRUE, status |-> "", countryCode |-> <<>>],
    [throws |-> FALSE, status |-> "fail", countryCode |-> <<>>],
    [throws |-> FALSE, status |-> "success", countryCode |-> <<>>] }
  \cup { [throws |-> FALSE, status |-> "success", countryCode |-> c] : c \in IsoCodes }
NoGeoAnswer == [throws |-> FALSE, status |-> "", countryCode |-> <<>>]

\* a variant of cacheHit that never finds the entry
cacheHit_never(cache, ip) == FALSE

\* const cached = this.geoCache.get(ip); if (cached) ...
cacheHit(cache, ip) == ip \in DOMAIN cache /\ cache[ip] # <<>>

\* ProxyScraper.persistGeoCacheSafe: the file takes the map, unless the write
\* fails, which is caught
persistGeoCacheSafe(cache, file, ok) == IF ok THEN cache ELSE file

\* a variant of afterLookup that lets a failed write of the file escape
afterLookup_persistThrows(cache, file, ip, ans, ok) ==
  IF ~ans.throws /\ ans.status = "success" /\ ans.countryCode # <<>>
  THEN [cache |-> MapSet(cache, ip, mapIsoToAppCountry(ans.countryCode)),
        file |-> persistGeoCacheSafe(MapSet(cache, ip, mapIsoToAppCountry(ans.countryCode)),
                                     file, ok),
        result |-> mapIsoToAppCountry(ans.countryCode), threw |-> ~ok]
  ELSE [cache |-> cache, file |-> file, result |-> unknown, threw |-> FALSE]

\* a variant of afterLookup that returns the country found without writing it
afterLookup_skipsWrite(cache, file, ip, ans, ok) ==
  IF ~ans.throws /\ ans.status = "success" /\ ans.countryCode # <<>>
  THEN [cache |-> cache, file |-> file,
        result |-> mapIsoToAppCountry(ans.countryCode), threw |-> FALSE]
  ELSE [cache |-> cache, file |-> file, result |-> unknown, threw |-> FALSE]

\* geolocateIp from the answer of the service on: the new map and file, what
\* the call returns, and whether it throws
afterLookup(cache, file, ip, ans, ok) ==
  IF ~ans.throws /\ ans.status = "success" /\ ans.countryCode # <<>>
  THEN [cache |-> MapSet(cache, ip, mapIsoToAppCountry(ans.countryCode)),
        file |-> persistGeoCacheSafe(MapSet(cache, ip, mapIsoToAppCountry(ans.countryCode)),
                                     file, ok),
        result |-> mapIsoToAppCountry(ans.countryCode), threw |-> FALSE]
  ELSE [cache |-> cache, file |-> file, result |-> unknown, threw |-> FALSE]

\* the calls followed at a time, and how many are made in all
GeoSlots == {1, 2}
MaxLookups == 3

\* a call: pc, ip and result; history: whether the map held the ip when the
\* call was made (hit) and what it held, the lookups sent, the answer of the
\* service, whether the file could be written, whether the call threw
IdleCall ==
  [pc |-> "idle", ip |-> <<>>, result |-> <<>>, hit |-> FALSE, held |-> <<>>,
   lookups |-> 0, ans |-> NoGeoAnswer, persisted |-> TRUE, threw |-> FALSE]

\* geolocate(ip) is called
GeoCall(c, ip) ==
  /\ geo.calls[c].pc \in {"idle", "done"}
  /\ geo.started < MaxLookups
  /\ LET made == [IdleCall EXCEPT !.ip = ip, !.hit = ip \in DOMAIN geo.cache,
                                  !.held = IF ip \in DOMAIN geo.cache
                                           THEN geo.cache[ip] ELSE <<>>]
     IN geo' = [geo EXCEPT !.started = @ + 1,
                           !.calls[c] =
                             IF cacheHit(geo.cache, ip)
                             THEN [made EXCEPT !.pc = "done", !.result = geo.cache[ip]]
                             ELSE [made EXCEPT !.pc = "waiting", !.lookups = 1]]
  /\ UNCHANGED <<proxies, sessions, failureCounts, strictPick, now, hc, sel, rq,
                 report, streak, nfail, evicted, vf, ing, scr, stats, ses>>

\* the service answers, or the 2 s pass
GeoAnswered(c, ans, ok) ==
  /\ geo.calls[c].pc = "waiting"
  /\ LET out == afterLookup(geo.cache, geo.file, geo.calls[c].ip, ans, ok)
     IN geo' = [geo EXCEPT !.cache = out.cache, !.file = out.file,
                           !.calls[c] = [@ EXCEPT !.pc = "done", !.result = out.result,
                                                  !.ans = ans, !.persisted = ok,
                                                  !.threw = out.threw]]
  /\ UNCHANGED <<proxies, sessions, failureCounts, strictPick, now, hc, sel, rq,
                 report, streak, nfail, evicted, vf, ing, scr, stats, ses>>

\* the maps geoCache.json can hold when the service starts
StoredCaches == { << >>, MapSet(<< >>, <<1, 1, 1, 1>>, usa),
                  MapSet(<< >>, <<1, 1, 1, 1>>, unknown) }

InitGeo ==
  /\ InitCommon
  /\ proxies = << >>
  /\ sessions = << >>
  /\ strictPick = FALSE
  /\ scr = IdleScr /\ stats = IdleStats /\ ses = IdleSes
  /\ \E stored \in StoredCaches :
       geo = [cache |-> stored, file |-> stored, started |-> 0,
              calls |-> [c \in GeoSlots |-> IdleCall]]

NextGeo ==
  \/ \E c \in GeoSlots, ip \in GeoIps : GeoCall(c, ip)
  \/ \E c \in GeoSlots, ans \in GeoAnswers, ok \in BOOLEAN : GeoAnswered(c, ans, ok)

SpecGeo == InitGeo /\ [][NextGeo]_vars

-----------------------------------------------------------------------------
(* Stats: ProxyService.getProxyStats and its five-second cache.  The clock  *)
(* counts milliseconds here.  stats.cache is statsCache; a snapshot carries *)
(* the time of the call that computed it ({ data, ts: now }).  With         *)
(* MemStorage the read of the pool does not wait, and a call is one step.   *)

\* now - this.statsCache.ts < 5_000
statsTtl == 5000

\* const key = proxy.country || 'unknown'
countryKey(p) == IF p.country # <<>> THEN p.country ELSE unknown

\* the records of ids counted by country: only countries that occur have a key
countByCountry(pool, ids) ==
  [k \in { countryKey(pool[i]) : i \in ids } |->
     Cardinality({ i \in ids : countryKey(pool[i]) = k })]

\* the snapshot getProxyStats computes from the pool at time t
computeStats(pool, t) ==
  [total |-> Cardinality(DOMAIN pool),
   working |-> Cardinality({ i \in DOMAIN pool : pool[i].isWorking }),
   byCountry |-> countByCountry(pool, DOMAIN pool),
   workingByCountry |-> countByCountry(pool, { i \in DOMAIN pool : pool[i].isWorking }),
   lastUpdated |-> t]

\* a variant of getProxyStats whose cache still serves at an age of 5 s
getProxyStats_lateExpiry(cache, pool, t) ==
  IF cache # Null /\ t - cache[1].ts <= statsTtl
  THEN [cache |-> cache, data |-> cache[1].data]
  ELSE [cache |-> Some([data |-> computeStats(pool, t), ts |-> t]),
        data |-> computeStats(pool, t)]

\* ProxyService.getProxyStats at time t: the cache it leaves, the data it
\* returns
getProxyStats(cache, pool, t) ==
  IF cache # Null /\ t - cache[1].ts < statsTtl
  THEN [cache |-> cache, data |-> cache[1].data]
  ELSE [cache |-> Some([data |-> computeStats(pool, t), ts |-> t]),
        data |-> computeStats(pool, t)]

\* GET /api/proxy-stats.  last is history: when the last call was made and
\* the data it returned
StatsCall ==
  /\ LET out == getProxyStats(stats.cache, proxies, now)
     IN stats' = [cache |-> out.cache, last |-> Some([at |-> now, data |-> out.data])]
  /\ UNCHANGED <<proxies, sessions, failureCounts, strictPick, now, hc, sel, rq,
                 report, streak, nfail, evicted, vf, ing, scr, geo, ses>>

\* time passes: just under the five seconds, or all of them
Delays == {statsTtl - 1, statsTtl}
StatsTick(d) ==
  /\ now + d <= MaxTime * statsTtl
  /\ now' = now + d
  /\ UNCHANGED <<proxies, sessions, failureCounts, strictPick, hc, sel, rq,
                 report, streak, nfail, evicted, vf, ing, scr, geo, stats, ses>>

\* the pool changes under the cache: a probe's verdict is written
PoolVerdict(id, ok) ==
  /\ id \in DOMAIN proxies
  /\ proxies' = updateProxy(proxies, id,
                   verifyUpdates(proxies, id, [ok |-> ok, rt |-> IF ok THEN Some(0) ELSE Null], now))
  /\ proxies' # proxies
  /\ UNCHANGED <<sessions, failureCounts, strictPick, now, hc, sel, rq,
                 report, streak, nfail, evicted, vf, ing, scr, geo, stats, ses>>

\* ... the enrichment sets a country (updateProxy(p.id, { country }))
PoolEnriched(id, country) ==
  /\ id \in DOMAIN proxies
  /\ proxies[id].country = unknown
  /\ proxies' = updateProxy(proxies, id, [country |-> country])
  /\ UNCHANGED <<sessions, failureCounts, strictPick, now, hc, sel, rq,
                 report, streak, nfail, evicted, vf, ing, scr, geo, stats, ses>>

\* ... a record is evicted (deleteProxy)
PoolEvicts(id) ==
  /\ id \in DOMAIN proxies
  /\ proxies' = deleteProxy(proxies, id)
  /\ UNCHANGED <<sessions, failureCounts, strictPick, now, hc, sel, rq,
                 report, streak, nfail, evicted, vf, ing, scr, geo, stats, ses>>

\* the service after a sweep: one record per listed pair, country unknown
InitStats ==
  /\ InitCommon
  /\ proxies = insertAll(<< >>, 1, scrapeAllSources(FirstScrape), 0)
  /\ sessions = << >>
  /\ strictPick = FALSE
  /\ InitIdle

NextStats ==
  \/ StatsCall
  \/ \E d \in Delays : StatsTick(d)
  \/ \E id \in Ids, ok \in BOOLEAN : PoolVerdict(id, ok)
  \/ \E id \in Ids, country \in {usa, canada} : PoolEnriched(id, country)
  \/ \E id \in Ids : PoolEvicts(id)

SpecStats == InitStats /\ [][NextStats]_vars

-----------------------------------------------------------------------------
(* Screen sessions: the storage operations behind POST, PATCH and DELETE   *)
(* /api/screen-sessions, and the router's re-pinning.  A session record    *)
(* here carries targetUrl, createdAt and lastRefresh as well.  POST is      *)
(* followed from the call of createScreenSession on, with the proxy the    *)
(* route has settled on.  Under MemStorage every operation is one step;    *)
(* under DbStorage createScreenSession first reads the session of the      *)
(* screen and then, in a later step, updates or inserts.                   *)

\* the ids a session can get: MaxSessions sessions are created in all
MaxSessions == 2
SessionIds == 1..MaxSessions

\* what a validated POST body holds once the route has set proxyId; isActive
\* is optional
Screens == {1, 2}
InsertSessions ==
  { [screenNumber |-> n, targetUrl |-> "a", country |-> usa, proxyId |-> Some(1)] :
      n \in Screens }
  \cup { [screenNumber |-> n, targetUrl |-> "b", country |-> usa, proxyId |-> Some(2),
          isActive |-> FALSE] : n \in Screens }

\* the bodies of PATCH: any fields, unvalidated; here the ones that move a
\* session to a screen
Patches == { [screenNumber |-> n] : n \in Screens }

\* the sessions of screen n
sessionsOfScreen(sess, n) == { k \in DOMAIN sess : sess[k].screenNumber = n }

\* MemStorage.getScreenSession: the first session of the screen in the order
\* of the map, which is the order of creation; none is 0
getScreenSession(sess, n) ==
  IF sessionsOfScreen(sess, n) = {} THEN 0
  ELSE CHOOSE k \in sessionsOfScreen(sess, n) : \A j \in sessionsOfScreen(sess, n) : k <= j

\* a variant of upserted that stamps the record as created anew
upserted_newCreatedAt(old, ins, t) ==
  [f \in DOMAIN old |->
     IF f = "id" THEN old.id
     ELSE IF f \in {"createdAt", "lastRefresh"} THEN t
     ELSE IF f \in DOMAIN ins THEN ins[f] ELSE old[f]]

\* the record of an occupied screen after createScreenSession:
\* { ...existing, ...insertSession, id, createdAt: existing.createdAt,
\*   lastRefresh: new Date() }
upserted(old, ins, t) ==
  [f \in DOMAIN old |->
     IF f = "id" THEN old.id
     ELSE IF f = "createdAt" THEN old.createdAt
     ELSE IF f = "lastRefresh" THEN t
     ELSE IF f \in DOMAIN ins THEN ins[f] ELSE old[f]]

\* the record of a free screen
newSession(id, ins, t) ==
  [id |-> id, screenNumber |-> ins.screenNumber, targetUrl |-> ins.targetUrl,
   country |-> ins.country, proxyId |-> ins.proxyId,
   isActive |-> IF "isActive" \in DOMAIN ins THEN ins.isActive ELSE TRUE,
   createdAt |-> t, lastRefresh |-> t]

\* createScreenSession from what it found (0: nothing) on: the update of the
\* session found, which changes nothing if that session is gone, or the
\* insert under a fresh id
writeSession(sess, found, id, ins, t) ==
  IF found # 0
  THEN IF found \in DOMAIN sess
       THEN [sess EXCEPT ![found] = upserted(sess[found], ins, t)]
       ELSE sess
  ELSE [k \in DOMAIN sess \cup {id} |-> IF k = id THEN newSession(id, ins, t) ELSE sess[k]]

\* what a createScreenSession leaves in ses.last, as history: its body and
\* the session it found; any other operation leaves nothing
Created(ins, found) == Some([ins |-> ins, found |-> found])

\* POST /api/screen-sessions reaches createScreenSession.  MemStorage: the
\* whole operation.  DbStorage: the SELECT of the screen's session, any of
\* its rows
SessionPost(c, ins) ==
  /\ sessionsOfScreen(sessions, ins.screenNumber) # {} \/ ses.nextId <= MaxSessions
  /\ IF ses.db
     THEN /\ ses.posts[c].pc = "idle"
          /\ \E found \in IF sessionsOfScreen(sessions, ins.screenNumber) = {} THEN {0}
                           ELSE sessionsOfScreen(sessions, ins.screenNumber) :
               ses' = [ses EXCEPT !.posts[c] = [pc |-> "found", ins |-> ins, found |-> found],
                                  !.last = Null]
          /\ UNCHANGED sessions
     ELSE /\ c = 1
          /\ sessions' = writeSession(sessions, getScreenSession(sessions, ins.screenNumber),
                                      ses.nextId, ins, now)
          /\ ses' = [ses EXCEPT
                       !.nextId = IF getScreenSession(sessions, ins.screenNumber) = 0
                                  THEN @ + 1 ELSE @,
                       !.last = Created(ins,
                                    getScreenSession(sessions, ins.screenNumber))]
  /\ UNCHANGED <<proxies, failureCounts, strictPick, now, hc, sel, rq,
                 report, streak, nfail, evicted, vf, ing, scr, geo, stats>>

\* DbStorage: the UPDATE or INSERT of a createScreenSession runs
SessionPostWrites(c) ==
  /\ ses.db
  /\ ses.posts[c].pc = "found"
  /\ ses.posts[c].found # 0 \/ ses.nextId <= MaxSessions
  /\ sessions' = writeSession(sessions, ses.posts[c].found, ses.nextId, ses.posts[c].ins, now)
  /\ ses' = [ses EXCEPT !.nextId = IF ses.posts[c].found = 0 THEN @ + 1 ELSE @,
                        !.posts[c] = [pc |-> "idle", ins |-> <<>>, found |-> 0],
                        !.last = Created(ses.posts[c].ins, ses.posts[c].found)]
  /\ UNCHANGED <<proxies, failureCounts, strictPick, now, hc, sel, rq,
                 report, streak, nfail, evicted, vf, ing, scr, geo, stats>>

\* PATCH /api/screen-sessions/:id: the body goes to updateScreenSession as it
\* is; an id that names no session gives 404
SessionPatch(id, updates) ==
  /\ sessions' = updateScreenSession(sessions, id, updates)
  /\ ses' = [ses EXCEPT !.last = Null]
  /\ UNCHANGED <<proxies, failureCounts, strictPick, now, hc, sel, rq,
                 report, streak, nfail, evicted, vf, ing, scr, geo, stats>>

\* DELETE /api/screen-sessions/:id
SessionDelete(id) ==
  /\ sessions' = [k \in DOMAIN sessions \ {id} |-> sessions[k]]
  /\ ses' = [ses EXCEPT !.last = Null]
  /\ UNCHANGED <<proxies, failureCounts, strictPick, now, hc, sel, rq,
                 report, streak, nfail, evicted, vf, ing, scr, geo, stats>>

\* DELETE /api/screen-sessions
SessionsClear ==
  /\ sessions' = << >>
  /\ ses' = [ses EXCEPT !.last = Null]
  /\ UNCHANGED <<proxies, failureCounts, strictPick, now, hc, sel, rq,
                 report, streak, nfail, evicted, vf, ing, scr, geo, stats>>

\* the router has served a request of session k through proxy id
SessionRepinned(k, id) ==
  /\ k \in DOMAIN sessions
  /\ sessions' = sessionsAfterSuccess(sessions, Some(k), id)
  /\ ses' = [ses EXCEPT !.last = Null]
  /\ UNCHANGED <<proxies, failureCounts, strictPick, now, hc, sel, rq,
                 report, streak, nfail, evicted, vf, ing, scr, geo, stats>>

\* time passes over the stored sessions, MaxTicks times
MaxTicks == 1
SessionTick ==
  /\ now < MaxTicks
  /\ sessions # << >>
  /\ now' = now + 1
  /\ UNCHANGED <<proxies, sessions, failureCounts, strictPick, hc, sel, rq,
                 report, streak, nfail, evicted, vf, ing, scr, geo, stats, ses>>

\* a POST at a time
PostSlots == {1}

InitSessions ==
  /\ InitCommon
  /\ proxies = insertAll(<< >>, 1, scrapeAllSources(FirstScrape), 0)
  /\ sessions = << >>
  /\ strictPick = FALSE
  /\ scr = IdleScr /\ geo = IdleGeo /\ stats = IdleStats
  /\ \E db \in BOOLEAN :
       ses = [db |-> db, nextId |-> 1,
              posts |-> [c \in PostSlots |-> [pc |-> "idle", ins |-> <<>>, found |-> 0]],
              last |-> <<>>]

NextSessions ==
  \/ \E c \in PostSlots, ins \in InsertSessions : SessionPost(c, ins)
  \/ \E c \in PostSlots : SessionPostWrites(c)
  \/ \E id \in SessionIds, updates \in Patches : SessionPatch(id, updates)
  \/ \E id \in SessionIds : SessionDelete(id)
  \/ SessionsClear
  \/ \E k \in SessionIds, id \in DOMAIN proxies : SessionRepinned(k, id)
  \/ SessionTick

SpecSessions == InitSessions /\ [][NextSessions]_vars

-----------------------------------------------------------------------------
(* The pool under all its writers: ingestion sweeps, the verifier, the      *)
(* health check of one id and the router run side by side on the pool the   *)
(* first sweep left, so that an update for an id can still be under way     *)
(* when another operation evicts that id.                                   *)

\* the requests for one proxy here name the first record; fetches carry no
\* session and are answered at once
EvictProxyId == CHOOSE i \in Ids : \A j \in Ids : i <= j

NextEvict ==
  \/ SweepStart
  \/ \E s \in 1..MaxSweeps : SweepScraped(s, FirstScrape)
  \/ VerifyStart
  \/ \E id \in vf.pending, answers \in Unanimous :
       VerifyProbeDone(id, answers, [u \in httpsTestUrls |-> 2])
  \/ HealthCheckStart(EvictProxyId)
  \/ \E id \in hc, answers \in Unanimous : HealthCheckDone(id, answers, 1)
  \/ FetchStart(TRUE, Some(EvictProxyId), Null)
  \/ FetchPick
  \/ \E answer \in { a \in Answers : a.status < 400 } : FetchResponse(answer, 0)

\* the service after its first sweep under MemStorage, the first record one
\* failure from eviction; one more sweep, one more timed pass and one more
\* fetch are to come
InitEvict ==
  /\ now = MaxTime - 1 /\ hc = {} /\ sel = IdleSel
  /\ rq = [IdleRq EXCEPT !.n = MaxFetches - 1]
  /\ report = NoReport /\ evicted = {} /\ vf = IdleVf
  /\ proxies = insertAll(<< >>, 1, scrapeAllSources(FirstScrape), 0)
  /\ ing = [db |-> FALSE, nextId |-> Len(scrapeAllSources(FirstScrape)) + 1,
            started |-> MaxSweeps - 1, sweeps |-> [s \in 1..MaxSweeps |-> IdleSweep]]
  /\ failureCounts = MapSet(<< >>, EvictProxyId, FailureThreshold - 1)
  /\ streak = [i \in IngestIds |-> IF i = EvictProxyId THEN FailureThreshold - 1 ELSE 0]
  /\ nfail = [i \in IngestIds |-> IF i = EvictProxyId THEN FailureThreshold - 1 ELSE 0]
  /\ sessions = << >>
  /\ strictPick = FALSE
  /\ InitIdle

SpecEvict == InitEvict /\ [][NextEvict]_vars

-----------------------------------------------------------------------------
(* The live probe of getProxyForScreen over a pool with more candidates    *)
(* than one call samples: SampleSize + 1 unverified records of one country, *)
(* which differ in id and ip only.                                          *)

ProbePool == [i \in 1..(SampleSize + 1) |-> createProxy(i, 80, usa)]

InitProbe ==
  /\ InitCommon
  /\ proxies = ProbePool
  /\ sessions = << >>
  /\ strictPick \in BOOLEAN
  /\ InitIdle

NextProbe ==
  \/ SelStart(usa)
  \/ \E i \in 1..SampleSize, answers \in Unanimous : SelProbeDone(i, answers, 1)

SpecProbe == InitProbe /\ [][NextProbe]_vars

-----------------------------------------------------------------------------
(* Geo enrichment beside the verifier: geolocateUnknownProxies and a        *)
(* verifyAllProxies pass run on the pool the first sweep left, whose        *)
(* records have no country yet.  The country service is in reach, so the    *)
(* verifier looks up the country of a record it found working and unknown.  *)
(* Here geo also holds the enrichment under way (enrich), the records whose *)
(* verifier lookup is under way (locating) and, as history, the country the *)
(* last update that named one gave each record (wrote).                     *)

geoConcurrency == 5

\* what the service answers: nothing, or either of two countries
EnrichAnswers ==
  { a \in GeoAnswers : a.throws \/ a.countryCode \in { <<"U","S">>, <<"c","a">> } }

IdleEnrich == [pc |-> "idle", unknown |-> <<>>, i |-> 0, pending |-> {}]

\* all.filter(p => !p.country || p.country === 'unknown'), as (id, ip)
unknownOf(pool) ==
  LET all == getProxies(pool, <<>>)
      NoCountry(p) == p.country = <<>> \/ p.country = unknown
      kept == SelectSeq(all, NoCountry)
  IN [k \in 1..Len(kept) |-> [id |-> kept[k].id, ip |-> kept[k].ip]]

\* one record of a batch, up to the wait for the country service: a cached
\* country is written at once, unless it is unknown
enrichOne(g, pool, p) ==
  IF cacheHit(g.cache, p.ip)
  THEN IF g.cache[p.ip] # unknown
       THEN [g |-> [g EXCEPT !.wrote = MapSet(@, p.id, g.cache[p.ip])],
             pool |-> updateProxy(pool, p.id, [country |-> g.cache[p.ip]])]
       ELSE [g |-> g, pool |-> pool]
  ELSE [g |-> [g EXCEPT !.enrich.pending = @ \cup {p.id}], pool |-> pool]

\* the records k..last of the list, one after the other
RECURSIVE enrichFrom(_, _, _, _)
enrichFrom(g, pool, k, last) ==
  IF k > last THEN [g |-> g, pool |-> pool]
  ELSE LET one == enrichOne(g, pool, g.enrich.unknown[k])
       IN enrichFrom(one.g, one.pool, k + 1, last)

\* the head of the while loop: the next batch is sent, or the call returns;
\* a batch with no lookup to wait for goes straight to the 500 ms delay
enrichLoop(g, pool, i) ==
  IF i < Len(g.enrich.unknown)
  THEN LET sent == enrichFrom([g EXCEPT !.enrich.i = i, !.enrich.pending = {}], pool,
                              i + 1, Min(i + geoConcurrency, Len(g.enrich.unknown)))
       IN [g |-> [sent.g EXCEPT !.enrich.pc =
                    IF sent.g.enrich.pending = {} THEN "sleeping" ELSE "running"],
           pool |-> sent.pool]
  ELSE [g |-> [g EXCEPT !.enrich = [IdleEnrich EXCEPT !.pc = "done"]], pool |-> pool]

\* geolocateUnknownProxies is called
EnrichStart ==
  /\ geo.enrich.pc \in {"idle", "done"}
  /\ geo.started < MaxLookups
  /\ LET out == enrichLoop([geo EXCEPT !.started = @ + 1,
                                       !.enrich = [IdleEnrich EXCEPT
                                                     !.unknown = unknownOf(proxies)]],
                           proxies, 0)
     IN geo' = out.g /\ proxies' = out.pool
  /\ report' = NoReport
  /\ UNCHANGED <<sessions, failureCounts, strictPick, now, hc, sel, rq,
                 streak, nfail, evicted, vf, ing, scr, stats, ses>>

\* the country service answers the lookup for record id of the batch: the
\* cache takes the country, and the record too unless it is unknown
EnrichAnswered(id, ans) ==
  /\ geo.enrich.pc = "running"
  /\ id \in geo.enrich.pending
  /\ LET p == CHOOSE q \in Range(geo.enrich.unknown) : q.id = id
         out == afterLookup(geo.cache, geo.file, p.ip, ans, TRUE)
         pending == geo.enrich.pending \ {id}
     IN /\ geo' = [geo EXCEPT !.cache = out.cache, !.file = out.file,
                              !.enrich.pending = pending,
                              !.enrich.pc = IF pending = {} THEN "sleeping" ELSE "running",
                              !.wrote = IF out.result # unknown /\ id \in DOMAIN proxies
                                        THEN MapSet(@, id, out.result) ELSE @]
        /\ proxies' = IF out.result # unknown
                      THEN updateProxy(proxies, id, [country |-> out.result])
                      ELSE proxies
  /\ report' = NoReport
  /\ UNCHANGED <<sessions, failureCounts, strictPick, now, hc, sel, rq,
                 streak, nfail, evicted, vf, ing, scr, stats, ses>>

\* the 500 ms after a batch are over
EnrichWaitEnds ==
  /\ geo.enrich.pc = "sleeping"
  /\ LET out == enrichLoop(geo, proxies, geo.enrich.i + geoConcurrency)
     IN geo' = out.g /\ proxies' = out.pool
  /\ report' = NoReport
  /\ UNCHANGED <<sessions, failureCounts, strictPick, now, hc, sel, rq,
                 streak, nfail, evicted, vf, ing, scr, stats, ses>>

\* does the verifier look up the country of record id after a probe with
\* this outcome?  p is the record as the pass read it
verifierLocates(v, id, ok) ==
  ok /\ id \in DOMAIN v.atStart /\ v.atStart[id].country \in {<<>>, unknown}

\* the updates of the verifier for a working record whose lookup gave country
locatedUpdates(res, t, country) ==
  IF country # <<>> /\ country # unknown
  THEN [isWorking |-> res.ok, lastChecked |-> t, responseTime |-> res.rt,
        country |-> country]
  ELSE [isWorking |-> res.ok, lastChecked |-> t, responseTime |-> res.rt]

\* the verifier has the country of the working record id: the record is
\* rewritten, the tracker told, and the batch may end
VerifyWrites(id, res, country, cache, file) ==
  /\ proxies' = updateProxy(proxies, id, locatedUpdates(res, now, country))
  /\ failureCounts' = noteSuccess(failureCounts, id)
  /\ HistSuccess(id)
  /\ geo' = [geo EXCEPT !.cache = cache, !.file = file,
                        !.locating = @ \ {id},
                        !.wrote = IF country # <<>> /\ country # unknown
                                     /\ id \in DOMAIN proxies
                                  THEN MapSet(@, id, country) ELSE @]
  /\ LET v == [vf EXCEPT !.pending = vf.pending \ {id},
                         !.working = vf.working + 1,
                         !.verdicts = MapSet(vf.verdicts, id, res)]
     IN vf' = IF v.pending # {} THEN v ELSE VerifyLoop(v, vf.i + batchSize)

\* a probe of the batch answers for a record the verifier is to locate: a
\* cached country is taken at once, else the country service is asked
VerifyProbeLocates(id, answers, ms) ==
  /\ vf.pc = "running"
  /\ id \in vf.pending \ geo.locating
  /\ LET run == tryTargets(answers, ms, 1, <<>>)
         res == [ok |-> run.ok, rt |-> run.rt]
     IN /\ verifierLocates(vf, id, res.ok)
        /\ IF cacheHit(geo.cache, vf.atStart[id].ip)
           THEN VerifyWrites(id, res, geo.cache[vf.atStart[id].ip], geo.cache, geo.file)
           ELSE /\ geo' = [geo EXCEPT !.locating = @ \cup {id}]
                /\ vf' = [vf EXCEPT !.verdicts = MapSet(vf.verdicts, id, res)]
                /\ report' = NoReport
                /\ UNCHANGED <<proxies, failureCounts, streak, nfail, evicted>>
  /\ UNCHANGED <<sessions, strictPick, scr, stats, ses, ing, now, hc, sel, rq>>

\* the country service answers the verifier's lookup for record id
VerifyLocated(id, ans) ==
  /\ id \in geo.locating
  /\ LET out == afterLookup(geo.cache, geo.file, vf.atStart[id].ip, ans, TRUE)
     IN VerifyWrites(id, vf.verdicts[id], out.result, out.cache, out.file)
  /\ UNCHANGED <<sessions, strictPick, scr, stats, ses, ing, now, hc, sel, rq>>

\* a probe answers for a record the verifier does not locate
VerifyProbePlain(id, answers, ms) ==
  /\ id \in vf.pending \ geo.locating
  /\ ~verifierLocates(vf, id, tryTargets(answers, ms, 1, <<>>).ok)
  /\ VerifyProbeDone(id, answers, ms)

\* the service after its first sweep: every record without country, nothing
\* cached; one enrichment and one timed pass are to come
InitEnrich ==
  /\ now = MaxTime - 1 /\ hc = {} /\ sel = IdleSel /\ rq = IdleRq
  /\ report = NoReport /\ evicted = {} /\ vf = IdleVf /\ ing = IdleIng
  /\ failureCounts = << >>
  /\ streak = [i \in IngestIds |-> 0]
  /\ nfail = [i \in IngestIds |-> 0]
  /\ proxies = insertAll(<< >>, 1, scrapeAllSources(FirstScrape), 0)
  /\ sessions = << >>
  /\ strictPick = FALSE
  /\ scr = IdleScr /\ stats = IdleStats /\ ses = IdleSes
  /\ geo = [cache |-> << >>, file |-> << >>, started |-> MaxLookups - 1, calls |-> << >>,
            enrich |-> IdleEnrich, locating |-> {}, wrote |-> << >>]

NextEnrich ==
  \/ EnrichStart
  \/ \E id \in geo.enrich.pending, ans \in EnrichAnswers : EnrichAnswered(id, ans)
  \/ EnrichWaitEnds
  \/ VerifyStart
  \/ \E id \in vf.pending, answers \in Unanimous :
       VerifyProbeLocates(id, answers, [u \in httpsTestUrls |-> 2])
  \/ \E id \in geo.locating, ans \in EnrichAnswers : VerifyLocated(id, ans)
  \/ \E id \in vf.pending, answers \in Unanimous :
       VerifyProbePlain(id, answers, [u \in httpsTestUrls |-> 2])

SpecEnrich == InitEnrich /\ [][NextEnrich]_vars

-----------------------------------------------------------------------------
(* Overlapping verification passes.  verifyAllProxies is called by the      *)
(* sweep that has refilled the pool, by the revalidation timer and by POST  *)
(* /api/proxies/verify-all, and a pass over a large pool outlasts the time  *)
(* to the next call.  Here vf holds the passes under way, by slot, and the  *)
(* pool is one record larger than a window.  Every probe succeeds, the      *)
(* probes of a pass answer in the order they were sent, and the records'    *)
(* country is known, so that the verifier looks nothing up.                 *)

PassSlots == {1, 2}

FanoutPool == [i \in 1..(batchSize + 1) |-> createProxy(i, 80, usa)]

\* every target answers
AllAnswer == [u \in httpsTestUrls |-> TRUE]

\* verifyAllProxies is called, once for each slot and all within one reading
\* of the clock: the pool is read and the probes of the first window are sent
VerifyAllStart(s) ==
  /\ vf[s].pc = "idle"
  /\ vf' = [vf EXCEPT ![s] = [StartedPass(proxies, now) EXCEPT !.atStart = << >>]]
  /\ report' = NoReport
  /\ UNCHANGED <<proxies, sessions, failureCounts, strictPick, scr, geo, stats,
                 ses, ing, now, hc, sel, rq, streak, nfail, evicted>>

\* the probe of record id answers in the pass of slot s: the record is
\* rewritten and the tracker told; the last answer of the window ends the
\* Promise.all
VerifyAllProbeDone(s, id) ==
  /\ vf[s].pc = "running"
  /\ id \in vf[s].pending
  /\ \A other \in vf[s].pending : id <= other
  /\ LET run == tryTargets(AllAnswer, [u \in httpsTestUrls |-> 2], 1, <<>>)
         res == [ok |-> run.ok, rt |-> run.rt]
         v == [vf[s] EXCEPT !.pending = @ \ {id}, !.working = @ + 1]
     IN /\ proxies' = updateProxy(proxies, id, verifyUpdates(proxies, id, res, now))
        /\ failureCounts' = noteSuccess(failureCounts, id)
        /\ HistSuccess(id)
        /\ vf' = [vf EXCEPT ![s] = IF v.pending # {} THEN v
                                   ELSE VerifyLoop(v, vf[s].i + batchSize)]
  /\ UNCHANGED <<sessions, strictPick, scr, geo, stats, ses, ing, now, hc, sel, rq>>

InitFanout ==
  /\ now = 1 /\ hc = {} /\ sel = IdleSel /\ rq = IdleRq
  /\ report = NoReport /\ evicted = {} /\ ing = IdleIng
  /\ vf = [s \in PassSlots |-> IdleVf]
  /\ proxies = FanoutPool
  /\ failureCounts = << >>
  /\ streak = [i \in DOMAIN FanoutPool |-> 0]
  /\ nfail = [i \in DOMAIN FanoutPool |-> 0]
  /\ sessions = << >>
  /\ strictPick = FALSE
  /\ InitIdle

NextFanout ==
  \/ \E s \in PassSlots : VerifyAllStart(s)
  \/ \E s \in PassSlots : \E id \in vf[s].pending : VerifyAllProbeDone(s, id)

SpecFanout == InitFanout /\ [][NextFanout]_vars

-----------------------------------------------------------------------------
(* Fetches served side by side.  Each tile of the wall sends its own       *)
(* /api/proxy-fetch request, so several requests wait for their proxies at  *)
(* the same time.  Here rq holds the requests, each for its own session and *)
(* sent through its own proxy, from the target's answer on; every answer is *)
(* a page.  Under MemStorage the handler runs from the answer to the        *)
(* response in one step; under DbStorage (ses.db) it reads the sessions,    *)
(* sends one UPDATE for every session to re-pin, and the UPDATEs of all     *)
(* requests run in any order.                                               *)

Fetches == {1, 2}

\* two active sessions of one country and a third one, none pinned yet; a
\* verified record for each request
RepinSessions ==
  [k \in 1..3 |-> [id |-> k, screenNumber |-> k,
                   country |-> IF k = 3 THEN canada ELSE usa,
                   proxyId |-> Null, isActive |-> TRUE]]
RepinPool == [i \in Fetches |-> verified(createProxy(i, 80, usa), TRUE)]

\* sessions.filter(s => s.isActive && s.country === sess.country) that are
\* not pinned to the proxy yet
toRepin(sess, sessionId, id) ==
  IF sessionId \in DOMAIN sess
  THEN { k \in DOMAIN sess : /\ sess[k].isActive
                             /\ sess[k].country = sess[sessionId].country
                             /\ sess[k].proxyId # Some(id) }
  ELSE {}

\* the target answers request f with a page: the proxy is marked working and
\* the sessions of the country are re-pinned (MemStorage) or their UPDATEs
\* are sent (DbStorage)
FetchServed(f) ==
  /\ rq[f].pc = "wait"
  /\ proxies' = poolAfterSuccess(proxies, rq[f].proxy, now, 1)
  /\ failureCounts' = noteSuccess(failureCounts, rq[f].proxy)
  /\ HistSuccess(rq[f].proxy)
  /\ IF ses.db /\ toRepin(sessions, rq[f].sessionId, rq[f].proxy) # {}
     THEN /\ rq' = [rq EXCEPT ![f].pc = "repin",
                              ![f].pending = toRepin(sessions, rq[f].sessionId, rq[f].proxy)]
          /\ UNCHANGED sessions
     ELSE /\ sessions' = sessionsAfterSuccess(sessions, Some(rq[f].sessionId), rq[f].proxy)
          /\ rq' = [rq EXCEPT ![f].pc = "done"]
  /\ UNCHANGED <<strictPick, now, hc, sel, vf, ing, scr, geo, stats, ses>>

\* DbStorage: the UPDATE of session k sent by request f has run; after the
\* last one the page is sent
RepinWrites(f, k) ==
  /\ rq[f].pc = "repin"
  /\ k \in rq[f].pending
  /\ sessions' = updateScreenSession(sessions, k, [proxyId |-> Some(rq[f].proxy)])
  /\ rq' = [rq EXCEPT ![f].pending = @ \ {k},
                      ![f].pc = IF rq[f].pending = {k} THEN "done" ELSE "repin"]
  /\ report' = NoReport
  /\ UNCHANGED <<proxies, failureCounts, strictPick, now, hc, sel, vf, ing, scr,
                 geo, stats, ses, streak, nfail, evicted>>

\* the request is repeated: the tile reloads, through the same proxy
FetchAgain(f) ==
  /\ rq[f].pc = "done"
  /\ rq[f].n < MaxFetches
  /\ rq' = [rq EXCEPT ![f].pc = "wait", ![f].n = @ + 1]
  /\ report' = NoReport
  /\ UNCHANGED <<proxies, sessions, failureCounts, strictPick, now, hc, sel, vf,
                 ing, scr, geo, stats, ses, streak, nfail, evicted>>

InitRepin ==
  /\ now = 0 /\ hc = {} /\ sel = IdleSel
  /\ report = NoReport /\ evicted = {} /\ vf = IdleVf /\ ing = IdleIng
  /\ failureCounts = << >>
  /\ streak = [i \in Fetches |-> 0]
  /\ nfail = [i \in Fetches |-> 0]
  /\ proxies = RepinPool
  /\ sessions = RepinSessions
  /\ strictPick = FALSE
  /\ scr = IdleScr /\ geo = IdleGeo /\ stats = IdleStats
  /\ \E db \in BOOLEAN : ses = [IdleSes EXCEPT !.db = db]
  /\ \E pick \in [Fetches -> Fetches] :
       rq = [f \in Fetches |-> [pc |-> "wait", sessionId |-> f, proxy |-> pick[f],
                                pending |-> {}, n |-> 1]]

NextRepin ==
  \/ \E f \in Fetches : FetchServed(f)
  \/ \E f \in Fetches, k \in DOMAIN sessions : RepinWrites(f, k)
  \/ \E f \in Fetches : FetchAgain(f)

SpecRepin == InitRepin /\ [][NextRepin]_vars

-----------------------------------------------------------------------------
(* Pool selector: claims *)

SelDone == sel.pc = "done"

\* C4: in strict mode, when the requested country holds a proxy marked
\* working, the call returns one of exactly those proxies, sends no probe and
\* writes no pool record; with A = 1.1.1.1:80 usa working and B = 2.2.2.2:80
\* usa not working it returns A.
C4_StrictFastPath ==
  (sel.pc # "idle" /\ strictPick /\ sel.atCall.working # {})
     => /\ SelDone
        /\ sel.result # Null
        /\ sel.result[1] \in sel.atCall.working
        /\ sel.probed = {}
        /\ sel.updated = {}

\* C4 witness: the scenario pool, and the call has returned A
C4_Witness ==
  /\ SelDone /\ strictPick /\ sel.country = usa
  /\ DOMAIN proxies = {1, 2}
  /\ proxies[1].ip = <<1, 1, 1, 1>> /\ proxies[1].port = 80
  /\ proxies[1].country = usa /\ proxies[1].isWorking
  /\ proxies[2].ip = <<2, 2, 2, 2>> /\ proxies[2].port = 80
  /\ proxies[2].country = usa /\ ~proxies[2].isWorking
  /\ sel.atCall.working = {proxies[1]}
  /\ sel.result = Some(proxies[1])

\* C5: whenever the requested country holds a proxy marked working, the call
\* returns a working proxy of that country, in strict mode and otherwise.
C5_FirstTierWins ==
  (SelDone /\ sel.atCall.working # {})
     => (sel.result # Null /\ sel.result[1] \in sel.atCall.working)

\* C6: in strict mode every proxy returned has the requested (normalized)
\* country.
C6_StrictSameCountry ==
  (SelDone /\ strictPick /\ sel.result # Null)
     => sel.result[1].country = sel.country

C8_StrictEmptyFailsFast ==
  (sel.pc # "idle" /\ strictPick
   /\ sel.atCall.working = {} /\ sel.atCall.plausible = {})
     => /\ SelDone
        /\ sel.result = Null
        /\ sel.probed = {}
        /\ sel.updated = {}

-----------------------------------------------------------------------------
(* Failure tracker: claims *)

C2_CountersPositive ==
  /\ [](\A id \in DOMAIN failureCounts :
          failureCounts[id] \in Nat /\ failureCounts[id] >= 1)
  /\ [][\A id \in Ids :
          (report'.kind = "success" /\ report'.id = id) =>
             /\ \A j \in Ids \ {id} :
                  /\ (j \in DOMAIN failureCounts') = (j \in DOMAIN failureCounts)
                  /\ j \in DOMAIN failureCounts => failureCounts'[j] = failureCounts[j]
             /\ IF id \in DOMAIN failureCounts
                THEN IF failureCounts[id] = 1
                     THEN id \notin DOMAIN failureCounts'
                     ELSE /\ id \in DOMAIN failureCounts'
                          /\ failureCounts'[id] = failureCounts[id] - 1
                ELSE id \notin DOMAIN failureCounts']_vars

\* C2 witness: a success report has just taken a counter from 1 to absent
\* while another id keeps a counter above 1
C2_Witness ==
  /\ report.kind = "success"
  /\ nfail[report.id] >= 1
  /\ report.id \notin DOMAIN failureCounts
  /\ \E j \in DOMAIN failureCounts : failureCounts[j] >= 2

\* C3 as claimed: a proxy is evicted only by the last of `threshold`
\* consecutive failure reports for its id.
C3_OnlyConsecutive ==
  (report.kind = "failure" /\ report.removed)
     => streak[report.id] >= FailureThreshold

\* C3 as amended: a proxy is evicted only by a failure report that raises
\* its counter (failure reports minus the success reports in between, one
\* each, never below zero) to the threshold, so after at least `threshold`
\* failure reports for its id, consecutive or not.
C3_NetThreshold ==
  (report.kind = "failure" /\ report.removed)
     => /\ report.v = FailureThreshold
        /\ nfail[report.id] >= FailureThreshold

\* C3 witness: an eviction by a failure report that ends a run of fewer than
\* `threshold` consecutive failures
C3_Witness ==
  /\ report.kind = "failure" /\ report.removed
  /\ streak[report.id] < FailureThreshold

-----------------------------------------------------------------------------
(* Request router: claims *)

\* the step is the router's handling of the answer to an attempt
AttemptAnswered == rq.pc = "wait" /\ rq'.pc # "wait"

\* C9: when the target answers an attempt with a status of 400 or more, the
\* router goes on to the next attempt with a different proxy, and the attempt
\* changes neither the failure counter nor the pool record of the proxy it
\* went through (nor anything else in the pool or the counters).
C9_RejectionLeavesProxyUnpenalized ==
  /\ [][(AttemptAnswered /\ ~rq'.last[1].error /\ rq'.last[1].status >= 400)
          => /\ proxies' = proxies
             /\ failureCounts' = failureCounts
             /\ report'.kind = "none"
             /\ rq'.pc = "pick"
             /\ rq'.attempt = rq.attempt + 1
             /\ rq.cur[1].id \in rq'.tried]_vars
  /\ [](rq.pc = "wait" => rq.cur[1].id \in rq.tried)
  /\ [][rq'.pc = "wait" /\ rq.pc = "pick" => rq'.cur[1].id \notin rq.tried]_vars

\* C9 witness: proxy A, marked working and without a failure counter, has
\* answered 403 and the request is now in flight through another proxy
C9_Witness ==
  /\ rq.pc = "wait"
  /\ rq.last # Null
  /\ ~rq.last[1].error /\ rq.last[1].status = 403
  /\ rq.cur[1].id # rq.last[1].id
  /\ rq.last[1].id \in DOMAIN proxies
  /\ proxies[rq.last[1].id].isWorking
  /\ rq.last[1].id \notin DOMAIN failureCounts

\* C10: when an attempt fails in transport, then before the next attempt is
\* picked the proxy is marked not working (if it is still in the pool) and
\* exactly one failure is reported for it: its counter goes up by one, or, at
\* the threshold, the proxy and its counter are removed; no other counter
\* changes, and no counter ever stays at the threshold.
C10_TransportFailurePenalized ==
  /\ [][(AttemptAnswered /\ rq'.last[1].error)
          => LET id == rq.cur[1].id
                 v == CountOf(failureCounts, id) + 1
             IN /\ rq'.pc = "pick"
                /\ id \in DOMAIN proxies' => ~proxies'[id].isWorking
                /\ IF v >= FailureThreshold
                   THEN id \notin DOMAIN proxies' /\ id \notin DOMAIN failureCounts'
                   ELSE /\ id \in DOMAIN failureCounts' /\ failureCounts'[id] = v
                        /\ (id \in DOMAIN proxies') = (id \in DOMAIN proxies)
                /\ \A j \in Ids \ {id} :
                     /\ (j \in DOMAIN failureCounts') = (j \in DOMAIN failureCounts)
                     /\ j \in DOMAIN failureCounts => failureCounts'[j] = failureCounts[j]
                     /\ (j \in DOMAIN proxies') = (j \in DOMAIN proxies)]_vars
  /\ [](\A id \in DOMAIN failureCounts : failureCounts[id] < FailureThreshold)

\* C10 witness: a transport failure in the router has just been the report
\* that evicted the proxy it went through, and the loop goes on
C10_Witness ==
  /\ rq.pc = "pick"
  /\ rq.last # Null /\ rq.last[1].error
  /\ report.kind = "failure" /\ report.removed
  /\ report.id = rq.last[1].id
  /\ report.id \notin DOMAIN proxies
  /\ report.id \notin DOMAIN failureCounts

-----------------------------------------------------------------------------
(* Request router: rotation and sessions *)

\* the ids the request in progress has been sent through
ContactedIds == { rq.contacted[k].id : k \in 1..Len(rq.contacted) }

\* the request's loop is running
InLoop == rq.pc \in {"pick", "wait"}

\* the request names a session that exists
HasSession == rq.sessionId # Null /\ rq.sessionId[1] \in DOMAIN sessions
ReqSession == sessions[rq.sessionId[1]]

\* the requested record, the pinned record: do they exist?
RequestedExists == rq.proxyId # Null /\ rq.proxyId[1] \in DOMAIN proxies
PinnedGiven == HasSession /\ ReqSession.proxyId # Null
PinnedExists == PinnedGiven /\ ReqSession.proxyId[1] \in DOMAIN proxies

\* C11: one fetch is sent through at most 3 proxies and never twice through
\* the same id; a requested or pinned id that names no record of the pool is
\* never contacted (every proxy contacted is a record of the pool when it is
\* picked).
C11_AtMostThreeDistinct ==
  /\ [](Len(rq.contacted) <= 3)
  /\ [](\A i, j \in 1..Len(rq.contacted) :
          i # j => rq.contacted[i].id # rq.contacted[j].id)
  /\ [][Len(rq'.contacted) = Len(rq.contacted) + 1
          => rq'.contacted[Len(rq'.contacted)].id \in DOMAIN proxies]_vars
  /\ []((InLoop /\ ~RequestedExists) => rq.proxyId[1] \notin ContactedIds)
  /\ []((InLoop /\ PinnedGiven /\ ~PinnedExists)
          => ReqSession.proxyId[1] \notin ContactedIds)

\* C11 witness: the fetch has ended with the failure page after three
\* proxies, the requested one, the pinned one and one other, while a fourth
\* eligible proxy was left
C11_Witness ==
  /\ rq.pc = "done" /\ rq.response = "failurePage"
  /\ Len(rq.contacted) = 3
  /\ rq.contacted[1].id = rq.proxyId[1]
  /\ HasSession /\ rq.contacted[2].id = ReqSession.proxyId[1]
  /\ \E p \in DOMAIN proxies :
       /\ p \notin ContactedIds
       /\ proxies[p].isWorking /\ proxies[p].port \in allowedPorts
       /\ proxies[p].country = ReqSession.country

\* the position in the attempts at which the pinned proxy is due
PinnedDue ==
  PinnedExists /\ (RequestedExists => ReqSession.proxyId[1] # rq.proxyId[1])
PinnedPosition == IF RequestedExists THEN 2 ELSE 1
OthersFrom ==
  (IF RequestedExists THEN 1 ELSE 0) + (IF PinnedDue THEN 1 ELSE 0) + 1

\* the country the other candidates must have; <<>> stands for any tier-1
TargetCountry ==
  IF HasSession /\ ReqSession.country # <<>> THEN ReqSession.country
  ELSE IF RequestedExists THEN proxies[rq.proxyId[1]].country
  ELSE <<>>

\* C12: within one fetch the requested proxy, if it is in the pool, is the
\* first attempted; the session's pinned proxy, if it is in the pool and is
\* not the requested one, is attempted next; every proxy attempted after
\* them was marked working when picked, has an allowed port and has the
\* target country (the session's, else the requested proxy's, else a tier-1
\* country).
C12_CandidateOrder ==
  InLoop =>
    /\ (RequestedExists /\ Len(rq.contacted) >= 1)
          => rq.contacted[1].id = rq.proxyId[1]
    /\ (PinnedDue /\ Len(rq.contacted) >= PinnedPosition)
          => rq.contacted[PinnedPosition].id = ReqSession.proxyId[1]
    /\ \A k \in OthersFrom..Len(rq.contacted) :
          /\ rq.contacted[k].isWorking
          /\ rq.contacted[k].port \in allowedPorts
          /\ IF TargetCountry # <<>>
             THEN rq.contacted[k].country = TargetCountry
             ELSE rq.contacted[k].country \in tier1

\* C12 witness: the third attempt, after the requested and the pinned proxy,
\* goes through another working proxy of the session's country
C12_Witness ==
  /\ rq.pc = "wait" /\ Len(rq.contacted) = 3
  /\ RequestedExists /\ PinnedDue
  /\ rq.contacted[1].id = rq.proxyId[1]
  /\ rq.contacted[2].id = ReqSession.proxyId[1]
  /\ rq.contacted[2].country # ReqSession.country
  /\ rq.contacted[3].country = ReqSession.country
  /\ rq.contacted[3].isWorking

\* C13: every fetch served (status < 400) for a session went through a
\* proxy of that session's country.
C13_ServedInSessionCountry ==
  (rq.pc = "done" /\ rq.response = "page" /\ rq.status < 400 /\ HasSession)
     => rq.contacted[Len(rq.contacted)].country = ReqSession.country

\* C14: when a fetch with a sessionId is served through proxy P, every active
\* session of that session's country has proxyId = P afterwards, every other
\* session keeps its proxyId, and no other session field changes; a step
\* that does not serve a fetch, the failure page included, changes no session.
C14_RepinSameCountryActive ==
  /\ [][(AttemptAnswered /\ rq'.response = "page" /\ HasSession)
          => /\ DOMAIN sessions' = DOMAIN sessions
             /\ \A k \in DOMAIN sessions :
                  /\ sessions'[k].proxyId =
                       IF sessions[k].isActive /\ sessions[k].country = ReqSession.country
                       THEN Some(rq.cur[1].id)
                       ELSE sessions[k].proxyId
                  /\ sessions'[k] = [sessions[k] EXCEPT !.proxyId = sessions'[k].proxyId]]_vars
  /\ [][sessions' # sessions
          => (AttemptAnswered /\ rq'.response = "page" /\ HasSession)]_vars

\* C14 witness: a fetch for session 1 has been served through P; session 2,
\* active and of the same country, has moved to P, session 3 of another
\* country has kept its proxy
C14_Witness ==
  /\ rq.pc = "done" /\ rq.response = "page" /\ rq.sessionId = Some(1)
  /\ LET P == rq.contacted[Len(rq.contacted)].id
     IN /\ P \notin {2, 3}
        /\ sessions[1].proxyId = Some(P)
        /\ sessions[2].isActive /\ sessions[2].proxyId = Some(P)
        /\ sessions[3].proxyId = Some(3)

-----------------------------------------------------------------------------
(* Request router: responses *)

\* the answer to the last attempt was a response with a status below 400
LastServed == rq.last # Null /\ ~rq.last[1].error /\ rq.last[1].status < 400

\* C15 as claimed: a fetch whose attempts all fail, or that finds no
\* candidate, is answered with the failure page and not with an error status.
C15_FailurePageNoErrorStatus ==
  (rq.pc = "done" /\ rq.response = "failurePage") => rq.status < 400

\* C15 as amended: an accepted fetch that is not served ends with the
\* failure page, which is sent with status 500; a served fetch ends with the
\* proxied content and the target's status (below 400); a request gets one
\* response, and the loop ends with a response after at most 3 attempts.
C15_FailurePageWithStatus500 ==
  /\ []((rq.pc = "done" /\ rq.response # "badRequest")
          => /\ rq.response \in {"page", "failurePage"}
             /\ rq.response = "page" <=> LastServed
             /\ rq.response = "page" => rq.status = rq.last[1].status
             /\ rq.response = "failurePage" => rq.status = 500)
  /\ [](InLoop => (rq.response = "none" /\ rq.attempt <= 4))
  /\ [][(rq.response # "none" /\ rq'.response # rq.response)
          => rq'.n = rq.n + 1]_vars
  /\ [][(rq.pc = "pick" /\ rq'.pc = "done") => rq'.response = "failurePage"]_vars

\* C15 witness: two attempts, the last rejected with 403, then no candidate:
\* the failure page with status 500
C15_Witness ==
  /\ rq.pc = "done" /\ rq.response = "failurePage" /\ rq.status = 500
  /\ Len(rq.contacted) = 2
  /\ ~rq.last[1].error /\ rq.last[1].status = 403

\* C16 as claimed: a response with a status below 400 sets the proxy's
\* record to isWorking = true with the measured latency as responseTime, and
\* reports one success: the proxy's failure counter, if any, goes down by one.
C16_SuccessRecordsLatency ==
  [][(AttemptAnswered /\ ~rq'.last[1].error /\ rq'.last[1].status < 400)
       => LET id == rq.cur[1].id
          IN /\ id \in DOMAIN proxies'
             /\ proxies'[id].isWorking
             /\ proxies'[id].responseTime = Some(rq'.last[1].elapsed)
             /\ report'.kind = "success" /\ report'.id = id
             /\ failureCounts' = noteSuccess(failureCounts, id)]_vars

\* C16 as amended: the responseTime stored is the measured latency in
\* milliseconds, but never less than 1.
C16_SuccessRecordsLatencyFloored ==
  [][(AttemptAnswered /\ ~rq'.last[1].error /\ rq'.last[1].status < 400)
       => LET id == rq.cur[1].id
              ms == rq'.last[1].elapsed
          IN /\ id \in DOMAIN proxies'
             /\ proxies'[id].isWorking
             /\ proxies'[id].responseTime = Some(IF ms < 1 THEN 1 ELSE ms)
             /\ \A j \in DOMAIN proxies \ {id} :
                  j \in DOMAIN proxies' /\ proxies'[j] = proxies[j]
             /\ report'.kind = "success" /\ report'.id = id
             /\ \A j \in Ids \ {id} :
                  /\ (j \in DOMAIN failureCounts') = (j \in DOMAIN failureCounts)
                  /\ j \in DOMAIN failureCounts => failureCounts'[j] = failureCounts[j]
             /\ IF id \in DOMAIN failureCounts /\ failureCounts[id] > 1
                THEN /\ id \in DOMAIN failureCounts'
                     /\ failureCounts'[id] = failureCounts[id] - 1
                ELSE id \notin DOMAIN failureCounts']_vars

\* C16 witness: a fetch served in less than a millisecond through a proxy
\* that had a failure counter: responseTime is 1, the counter is one lower
C16_Witness ==
  /\ rq.pc = "done" /\ rq.response = "page"
  /\ rq.last[1].elapsed = 0
  /\ proxies[rq.last[1].id].isWorking
  /\ proxies[rq.last[1].id].responseTime = Some(1)
  /\ report.kind = "success" /\ report.id = rq.last[1].id
  /\ rq.last[1].id \in DOMAIN failureCounts
  /\ failureCounts[rq.last[1].id] = FailureThreshold - 2

-----------------------------------------------------------------------------
(* Verification: the probe, the verdict writes and the batch pass *)

\* the targets of the last probe that would answer
Answering == { u \in httpsTestUrls : vf.last[1].answers[u] }

\* C17: the probe asks its targets in their fixed order; at the first target
\* that answers it returns ok with that target's round trip and asks no later
\* target; it returns not-ok with no time exactly when every target fails,
\* having asked them all.
C17_FirstAnswerDecides ==
  vf.last # Null =>
    LET l == vf.last[1]
        first == CHOOSE u \in Answering : \A w \in Answering : u <= w
    IN /\ l.run.ok <=> Answering # {}
       /\ l.run.ok =>
            /\ l.run.rt = Some(l.ms[first])
            /\ l.run.contacted = [u \in 1..first |-> u]
       /\ ~l.run.ok =>
            /\ l.run.rt = Null
            /\ l.run.contacted = [u \in httpsTestUrls |-> u]

\* a probe whose first target failed and whose second answered, and so did not
\* ask the third
C17_Witness ==
  /\ vf.last # Null
  /\ Answering = {2}
  /\ vf.last[1].run.ok
  /\ vf.last[1].run.contacted = <<1, 2>>
  /\ vf.last[1].ms[1] # vf.last[1].ms[2]

\* the ids whose probe was answered in this step: by the batch pass, by the
\* single-proxy health check, by the selector's live probe
SweepAnswered == IF vf.pc = "running" /\ vf' # vf THEN vf.pending \ vf'.pending ELSE {}
HealthCheckAnswered == hc \ hc'
LiveProbeAnswered == IF sel.pc = "probing" /\ sel' # sel THEN sel'.updated \ sel.updated ELSE {}

\* the record of id, if still in the pool after the step, says not working
\* and carries no response time
ClearedAfter(id) ==
  id \in DOMAIN proxies' =>
    ~proxies'[id].isWorking /\ proxies'[id].responseTime = Null

\* C18: when a verification of a proxy finds every probe target failing, in
\* the batch pass, the single-proxy health check or the selector's live probe,
\* the proxy's record afterwards has isWorking = false and responseTime = null,
\* whatever time an earlier verdict stored.  (Each of the three writes
\* isWorking = ok, so a record left not working is one whose probe failed.)
C18_FailedVerdictClearsLatency ==
  [][ /\ \A id \in SweepAnswered : ~vf'.verdicts[id].ok => ClearedAfter(id)
      /\ \A id \in HealthCheckAnswered \cup LiveProbeAnswered :
           (id \in DOMAIN proxies' /\ ~proxies'[id].isWorking) => ClearedAfter(id)
    ]_vars

\* the record of id carries the verdict this pass reached for it, on the
\* record the pass found: only the three status fields differ
CarriesVerdict(id) ==
  proxies[id] = [vf.atStart[id] EXCEPT !.isWorking = vf.verdicts[id].ok,
                                       !.lastChecked = vf.startedAt,
                                       !.responseTime = vf.verdicts[id].rt]

-----------------------------------------------------------------------------
(* Ingestion *)

\* C20: in every reachable state of the pool, whatever sweeps (overlapping
\* ones included), verifications and evictions led to it, no two records have
\* the same (ip, port).
C20_UniqueAddress ==
  \A i, j \in DOMAIN proxies :
    (proxies[i].ip = proxies[j].ip /\ proxies[i].port = proxies[j].port) => i = j

\* the same under MemStorage alone, where a sweep is one step
C20_UniqueAddressInMemory == ~ing.db => C20_UniqueAddress

-----------------------------------------------------------------------------
(* The scraper *)

\* the list deduplicateProxies was given by the call that has returned
Merged == flatFrom(scr.src, 1)

\* the positions of a list that hold the first entry of their key
FirstPositions(list) ==
  { i \in 1..Len(list) : \A j \in 1..(i - 1) : dedupKey(list[j]) # dedupKey(list[i]) }

\* C21: the output of deduplicateProxies has no two entries of the same
\* (ip, port), holds for every key of the input exactly its first occurrence,
\* in input order, and is left unchanged by deduplicating it again.
C21_DedupFirstOccurrences ==
  scr.pc = "done" =>
    LET out == scr.result
        first == SortedIds(FirstPositions(Merged))
    IN /\ \A i, j \in 1..Len(out) : dedupKey(out[i]) = dedupKey(out[j]) => i = j
       /\ out = [k \in 1..Len(first) |-> Merged[first[k]]]
       /\ deduplicateProxies(out) = out

\* a call whose merged list repeated a key after an entry of another key
C21_Witness ==
  /\ scr.pc = "done"
  /\ \E i, j, k \in 1..Len(Merged) :
       /\ i < j /\ j < k
       /\ dedupKey(Merged[i]) = dedupKey(Merged[k])
       /\ dedupKey(Merged[i]) # dedupKey(Merged[j])
  /\ Len(scr.result) = 2

\* a numeral, and the number it writes
IsNumeral(t) == t # <<>> /\ \A i \in 1..Len(t) : t[i] \in Digits
RECURSIVE NumValue(_)
NumValue(t) ==
  IF t = <<>> THEN 0 ELSE NumValue(SubSeq(t, 1, Len(t) - 1)) * 10 + DigitValue(t[Len(t)])

\* a dotted IPv4 address: four numerals of at most three digits, none above 255
IsIPv4(t) ==
  \E a, b, c \in 1..Len(t) :
    /\ a < b /\ b < c
    /\ { i \in 1..Len(t) : t[i] = "." } = {a, b, c}
    /\ \A part \in { SubSeq(t, 1, a - 1), SubSeq(t, a + 1, b - 1),
                      SubSeq(t, b + 1, c - 1), SubSeq(t, c + 1, Len(t)) } :
         IsNumeral(part) /\ Len(part) <= 3 /\ NumValue(part) <= 255

\* line is, blanks around it aside, the text ip:port of candidate c
LineOf(line, c) ==
  \E k \in 1..Len(trim(line)) :
    /\ trim(line)[k] = ":"
    /\ SubSeq(trim(line), 1, k - 1) = c.ip
    /\ IsIPv4(c.ip)
    /\ IsNumeral(SubSeq(trim(line), k + 1, Len(trim(line))))
    /\ c.port = Some(NumValue(SubSeq(trim(line), k + 1, Len(trim(line)))))

\* the lines the sources that succeeded sent to the call that has returned
LinesRead ==
  UNION { Range(scr.src[k].body) : k \in { j \in DOMAIN scr.src : scr.src[j].pc = "ok" } }

\* C22: every candidate scrapeAllSources returns comes from an input line of
\* the form ip:port with a valid dotted IPv4 address and a numeric port; a
\* line that is not of that form gives no candidate.
C22_OnlyWellFormedLines ==
  scr.pc = "done" =>
    /\ \A i \in 1..Len(scr.result) :
         \E line \in LinesRead : LineOf(line, scr.result[i])
    /\ \A line \in LinesRead :
         parseLine(line) # <<>> => LineOf(line, parseLine(line)[1])

\* the sources of the call that succeeded, and what their bodies held
Succeeded == { k \in DOMAIN scr.src : scr.src[k].pc = "ok" }
CandidatesOf(k) == Range(parseSimpleFormat(scr.src[k].body))

\* no source is asked more than twice, and a call that has returned holds,
\* once each, the candidates of the sources that succeeded and nothing else
ScrapeOutcome ==
  /\ \A k \in DOMAIN scr.src :
       /\ scr.src[k].attempt <= retries + 1
       /\ scr.src[k].pc \in {"asked", "ok"} => scr.src[k].attempt <= retries
  /\ scr.pc = "done" =>
       /\ \A k \in DOMAIN scr.src : Settled(scr.src[k])
       /\ Range(scr.result) = UNION { CandidatesOf(k) : k \in Succeeded }
       /\ Cardinality(Range(scr.result)) = Len(scr.result)

\* C23: scrapeAllSources never fails because sources fail: whichever sources
\* fail or time out, each is asked at most once more, the call terminates, and
\* it returns the deduplicated union of the candidates of the sources that
\* succeeded.
C23_FailingSourcesAreSkipped ==
  /\ []ScrapeOutcome
  /\ (scr.pc = "running" ~> scr.pc = "done")

C23_Witness ==
  /\ scr.pc = "done"
  /\ scr.result # <<>>
  /\ \E k \in DOMAIN scr.src :
       scr.src[k].pc = "skipped" /\ scr.src[k].attempt = retries + 1 /\ ~scr.src[k].timedOut

-----------------------------------------------------------------------------
(* Ingestion: the outcome of a sweep *)

\* sweep s completes in this step, and no other sweep was under way during it
CompletesAlone(s) ==
  ing.sweeps[s].pc # "done" /\ ing'.sweeps[s].pc = "done" /\ ing'.sweeps[s].alone

\* the ids the records of a sweep got that inserted list and left next as the
\* next free id
IdsOf(list, next) == (next - Len(list))..(next - 1)
IdOf(list, next, j) == next - Len(list) + j - 1

\* pool holds one record per candidate of list and no other record
OneRecordEach(list, next, pool) ==
  /\ DOMAIN pool = IdsOf(list, next)
  /\ \A j \in 1..Len(list) :
       pool[IdOf(list, next, j)].ip = list[j].ip /\ pool[IdOf(list, next, j)].port = list[j].port

-----------------------------------------------------------------------------
(* Geolocation: claims *)

GeoCalls == { geo.calls[c] : c \in { d \in DOMAIN geo.calls : geo.calls[d].pc # "idle" } }

\* C25: geolocate for an ip that has a cache entry returns the cached value
\* and sends no lookup; a lookup is sent only on a miss, and a call sends at
\* most one.
C25_CacheFirst ==
  \A call \in GeoCalls :
    /\ call.lookups <= 1
    /\ call.hit => call.lookups = 0 /\ call.pc = "done" /\ call.result = call.held
    /\ call.lookups = 1 => ~call.hit

C25_Witness ==
  \E c, d \in DOMAIN geo.calls :
    /\ geo.calls[c].pc = "done" /\ geo.calls[c].lookups = 1 /\ geo.calls[c].result = canada
    /\ geo.calls[d].pc = "done" /\ geo.calls[d].hit /\ geo.calls[d].result = canada
    /\ geo.calls[d].lookups = 0

\* a lookup that gave no country: no answer, an error, a status other than
\* success, no country code
LookupFailed(ans) == ans.throws \/ ans.status # "success" \/ ans.countryCode = <<>>

\* call c gets the answer of the service in this step
LookupAnswered(c) == geo.calls[c].pc = "waiting" /\ geo'.calls[c].pc = "done"

\* C26: geolocate never throws; a miss whose lookup fails returns unknown
\* and leaves the cache as it was; a failure to write the cache file does not
\* escape the call, which returns the country found.
C26_LookupFailureGivesUnknown ==
  /\ [](\A call \in GeoCalls : ~call.threw)
  /\ [][\A c \in DOMAIN geo.calls :
          LookupAnswered(c) =>
            /\ LookupFailed(geo'.calls[c].ans) =>
                 /\ geo'.calls[c].result = unknown
                 /\ geo'.cache = geo.cache /\ geo'.file = geo.file
            /\ ~LookupFailed(geo'.calls[c].ans) /\ ~geo'.calls[c].persisted =>
                 /\ geo'.calls[c].result = mapIsoToAppCountry(geo'.calls[c].ans.countryCode)
                 /\ geo'.file = geo.file]_vars

C26_Witness ==
  \E c, d \in DOMAIN geo.calls :
    /\ geo.calls[c].pc = "done" /\ geo.calls[c].lookups = 1
    /\ geo.calls[c].ans.throws /\ geo.calls[c].result = unknown
    /\ geo.calls[d].pc = "done" /\ geo.calls[d].lookups = 1
    /\ ~LookupFailed(geo.calls[d].ans) /\ ~geo.calls[d].persisted
    /\ geo.calls[d].result = usa
    /\ geo.calls[c].ip \notin DOMAIN geo.cache

\* the values mapIsoToAppCountry gives
AppCountries == {usa, canada, australia, uk, germany, france, netherlands, unknown}

\* C27 as stated: the geo cache maps ips to the country labels and only
\* grows: a successful lookup has written its entry when the call returns,
\* and an entry, once there, is never removed and never changes its value.
C27_CacheOnlyGrows ==
  /\ [](\A ip \in DOMAIN geo.cache : geo.cache[ip] \in AppCountries)
  /\ [][/\ \A ip \in DOMAIN geo.cache :
             ip \in DOMAIN geo'.cache /\ geo'.cache[ip] = geo.cache[ip]
         /\ \A c \in DOMAIN geo.calls :
             LookupAnswered(c) /\ ~LookupFailed(geo'.calls[c].ans) =>
               /\ geo'.calls[c].ip \in DOMAIN geo'.cache
               /\ geo'.cache[geo'.calls[c].ip] = geo'.calls[c].result]_vars

\* C27, amended: the geo cache maps ips to the labels of mapIsoToAppCountry,
\* unknown among them, and its ips only grow: a successful lookup has written
\* its entry when the call returns, no entry is ever removed, and the value
\* of an entry changes only when a lookup for the same ip succeeds that was
\* sent while the ip had no entry.
C27_CacheKeepsItsIps ==
  /\ [](\A ip \in DOMAIN geo.cache : geo.cache[ip] \in AppCountries)
  /\ [][/\ \A ip \in DOMAIN geo.cache :
             /\ ip \in DOMAIN geo'.cache
             /\ geo'.cache[ip] # geo.cache[ip] =>
                  \E c \in DOMAIN geo.calls :
                    /\ LookupAnswered(c) /\ ~LookupFailed(geo'.calls[c].ans)
                    /\ geo.calls[c].ip = ip /\ ~geo.calls[c].hit
                    /\ geo'.cache[ip] = geo'.calls[c].result
         /\ \A c \in DOMAIN geo.calls :
             LookupAnswered(c) /\ ~LookupFailed(geo'.calls[c].ans) =>
               /\ geo'.calls[c].ip \in DOMAIN geo'.cache
               /\ geo'.cache[geo'.calls[c].ip] = geo'.calls[c].result]_vars

\* two lookups of one ip overlapped and both succeeded, with different
\* countries: the entry holds the country of one, not that of the other
C27_Witness ==
  \E c, d \in DOMAIN geo.calls :
    /\ geo.calls[c].pc = "done" /\ geo.calls[d].pc = "done"
    /\ geo.calls[c].ip = geo.calls[d].ip
    /\ geo.calls[c].lookups = 1 /\ geo.calls[d].lookups = 1
    /\ ~LookupFailed(geo.calls[c].ans) /\ ~LookupFailed(geo.calls[d].ans)
    /\ geo.calls[c].result = usa /\ geo.calls[d].result = canada
    /\ geo.cache[geo.calls[c].ip] = canada

-----------------------------------------------------------------------------
(* Stats: claims *)

\* the sum of the counts of a by-country table
RECURSIVE SumOf(_)
SumOf(f) ==
  IF DOMAIN f = {} THEN 0
  ELSE LET k == CHOOSE x \in DOMAIN f : TRUE
       IN f[k] + SumOf([x \in DOMAIN f \ {k} |-> f[x]])

\* data counts the records of pool
SnapshotOf(data, pool) ==
  /\ data.total = Cardinality(DOMAIN pool)
  /\ data.working = Cardinality({ i \in DOMAIN pool : pool[i].isWorking })
  /\ SumOf(data.byCountry) = data.total
  /\ SumOf(data.workingByCountry) = data.working

-----------------------------------------------------------------------------
(* Screen sessions: claims *)

\* this step is the write of a createScreenSession that had found a session
\* on its screen (every other operation clears ses.last)
UpsertStep ==
  /\ ses'.last # Null /\ ses'.last[1].found # 0
  /\ now' = now
  /\ sessions' # sessions \/ ses' # ses

\* session k is in both states, with its id and createdAt, and has taken the
\* fields of ins
UpdatedInPlace(k, ins) ==
  /\ k \in DOMAIN sessions /\ k \in DOMAIN sessions'
  /\ DOMAIN sessions' = DOMAIN sessions
  /\ \A j \in DOMAIN sessions \ {k} : sessions'[j] = sessions[j]
  /\ sessions'[k].id = sessions[k].id
  /\ sessions'[k].createdAt = sessions[k].createdAt
  /\ sessions'[k].lastRefresh = now
  /\ \A f \in DOMAIN ins : sessions'[k][f] = ins[f]

\* C29 as stated: createScreenSession for a screen number that is taken
\* updates the session in place: the number of sessions stays, the record
\* keeps its id and createdAt and takes the new fields.
C29_OccupiedScreenUpdatedInPlace ==
  [][UpsertStep => UpdatedInPlace(ses'.last[1].found, ses'.last[1].ins)]_vars

\* the same for a session that is still stored when the write runs; under
\* DbStorage the session read can have been deleted since, and then the
\* UPDATE matches no row and nothing is written
StoredSessionUpdatedInPlace ==
  [][UpsertStep =>
       IF ses'.last[1].found \in DOMAIN sessions
       THEN UpdatedInPlace(ses'.last[1].found, ses'.last[1].ins)
       ELSE ses.db /\ sessions' = sessions]_vars

\* a second POST for a screen has rewritten its session later on: created at
\* 0, refreshed at 1, the fields of the second body, and two sessions in all
UpsertSeen ==
  /\ ses.last # Null /\ ses.last[1].found \in DOMAIN sessions
  /\ Cardinality(DOMAIN sessions) = 2
  /\ sessions[ses.last[1].found].createdAt = 0
  /\ sessions[ses.last[1].found].lastRefresh = 1
  /\ sessions[ses.last[1].found].targetUrl = "b"
  /\ ~sessions[ses.last[1].found].isActive
  /\ ses.last[1].ins.targetUrl = "b"

\* C30: whatever session operations have run (create, PATCH with any fields,
\* delete, clear, re-pinning by the router), no two stored active sessions
\* have the same screenNumber.
C30_OneActiveSessionPerScreen ==
  \A j, k \in DOMAIN sessions :
    j # k /\ sessions[j].isActive /\ sessions[k].isActive =>
      sessions[j].screenNumber # sessions[k].screenNumber

-----------------------------------------------------------------------------
(* Eviction: claims *)

\* this step completes an ingestion sweep
SweepCompletes ==
  \E s \in DOMAIN ing.sweeps :
    UnderWay(ing.sweeps[s]) /\ ing'.sweeps[s].pc = "done"

\* C31: eviction is one-way: no step (an update of the verifier, the router
\* or a health check that was under way, a success report) leaves a record
\* with an evicted id in the pool, and every record that enters the pool is
\* put there by an ingestion sweep under an id never given before.
C31_EvictionIsOneWay ==
  [][/\ evicted' \cap DOMAIN proxies' = {}
     /\ \A id \in DOMAIN proxies' \ DOMAIN proxies :
          /\ SweepCompletes
          /\ ing.nextId <= id /\ id < ing'.nextId]_vars

\* the first record was evicted, a success was reported for it afterwards
\* (its streak of failures is over), and a sweep has refilled the pool since
C31_Witness ==
  /\ 1 \in evicted
  /\ streak[1] = 0
  /\ 1 \notin DOMAIN proxies
  /\ \E id \in DOMAIN proxies : id > Len(scrapeAllSources(FirstScrape))
  /\ hc = {} /\ vf.pc = "done" /\ rq.pc = "done"

-----------------------------------------------------------------------------
(* Live probe: claims *)

\* the positions of the sample probed in the batches before the current one
EarlierBatches == 1..sel.idx

\* the positions of the current batch whose probe has answered
AnsweredInBatch ==
  { i \in (sel.idx + 1)..Min(sel.idx + 4, Len(sel.sample)) : i \notin sel.pending }

\* C32: one getProxyForScreen call probes at most 8 distinct proxies, in at
\* most 2 batches of at most 4 probes at a time; it starts no further batch
\* once a probe of a batch has succeeded; every probed record's isWorking
\* flag holds the outcome of its probe; and the call returns a proxy whose
\* probe succeeded, or nothing when no probe did.
C32_BoundedLiveProbe ==
  /\ Cardinality(sel.probed) <= 8
  /\ Cardinality(sel.pending) <= 4
  /\ sel.pc = "probing" =>
       /\ sel.batchesTried < 2
       /\ Cardinality(sel.probed) <= 4 * (sel.batchesTried + 1)
       /\ \A k \in EarlierBatches : ~proxies[sel.sample[k].id].isWorking
       /\ \A i \in AnsweredInBatch :
            proxies[sel.sample[i].id].isWorking <=> i \in sel.good
  /\ sel.pc = "done" /\ sel.path \in {"probe", "none"} =>
       /\ sel.updated = sel.probed
       /\ sel.result # Null =>
            /\ sel.result[1].id \in sel.probed
            /\ proxies[sel.result[1].id].isWorking
       /\ sel.result = Null =>
            \A id \in sel.probed : ~proxies[id].isWorking

\* a call has probed 8 records in two batches and returned one of the second
\* batch; a ninth candidate was never probed
C32_Witness ==
  /\ sel.pc = "done" /\ sel.path = "probe"
  /\ Cardinality(sel.probed) = 8
  /\ Cardinality(DOMAIN proxies \ sel.probed) = 1
  /\ sel.result # Null
  /\ Cardinality({ id \in sel.probed : ~proxies[id].isWorking }) >= 4

-----------------------------------------------------------------------------
(* Pool updates: claims *)

\* the records in the pool whose verdict the pass under way (or the last one)
\* has written
StatusWritten == (DOMAIN vf.verdicts \cap DOMAIN proxies) \ geo.locating

\* the records in the pool that an update naming a country has reached
CountryWritten == DOMAIN geo.wrote \cap DOMAIN proxies

\* C33: pool updates merge the fields they name into the stored record.
\* Whatever the order in which the enrichment's update (country) and the
\* verifier's update (isWorking, lastChecked, responseTime) reach a record,
\* the record holds the status fields of the verifier's update and the
\* country of the last update that named one; a record no update named a
\* country for has none.
C33_UpdatesMergeFields ==
  /\ \A id \in StatusWritten :
       /\ proxies[id].isWorking = vf.verdicts[id].ok
       /\ proxies[id].responseTime = vf.verdicts[id].rt
       /\ proxies[id].lastChecked = vf.startedAt
  /\ \A id \in CountryWritten : proxies[id].country = geo.wrote[id]
  /\ \A id \in DOMAIN proxies \ CountryWritten : proxies[id].country = unknown

\* the enrichment and the pass are over; the first record was found not
\* working, so the verifier named no country for it, and holds the country
\* the enrichment wrote beside the verifier's verdict
C33_Witness ==
  /\ geo.enrich.pc = "done" /\ vf.pc = "done" /\ geo.locating = {}
  /\ 1 \in StatusWritten /\ 1 \in CountryWritten
  /\ ~vf.verdicts[1].ok
  /\ proxies[1].country = usa
  /\ ~proxies[1].isWorking /\ proxies[1].lastChecked = vf.startedAt
  /\ vf.startedAt > 0

-----------------------------------------------------------------------------
(* Verification fan-out: claims *)

\* the batch-verification probes in flight in the whole service
ProbesInFlight ==
  LET n(s) == Cardinality(vf[s].pending)
  IN n(1) + n(2)

\* within a pass the probes in flight belong to one window of the list read
WindowsInTurn ==
  \A s \in PassSlots :
    \A id \in vf[s].pending :
      \E k \in (vf[s].i + 1)..Min(vf[s].i + 100, Len(vf[s].toCheck)) :
        vf[s].toCheck[k] = id

\* C34: at most 100 batch-verification probes are in flight in the whole
\* service at any moment, also when passes started by a sweep, by the timer
\* and by a manual verify-all overlap; within a pass the probes in flight
\* belong to one window, the next one starting only when they have all
\* answered.
C34_AtMost100ProbesInFlight ==
  /\ ProbesInFlight <= 100
  /\ WindowsInTurn

-----------------------------------------------------------------------------
(* Failure counters: claims *)

\* no operation is in progress
Quiescent ==
  /\ \A s \in DOMAIN ing.sweeps : ~UnderWay(ing.sweeps[s])
  /\ vf.pc \in {"idle", "done"}
  /\ hc = {}
  /\ sel.pc \in {"idle", "done"}
  /\ rq.pc \in {"idle", "done"}

\* C35: whenever no operation is in progress, every key of the failure-count
\* map is the id of a record in the pool: no counter outlives a proxy that a
\* sweep or an eviction removed.
C35_CountersOnlyForPooledProxies ==
  Quiescent => DOMAIN failureCounts \subseteq DOMAIN proxies

-----------------------------------------------------------------------------
(* Re-pinning: claims *)

\* every request has been answered
AllServed == \A f \in Fetches : rq[f].pc = "done"

\* C36: when fetches for sessions of one country that were served side by
\* side, each possibly through another proxy, have all completed, all active
\* sessions of that country hold the same proxyId.
C36_CountryPinnedToOneProxy ==
  AllServed =>
    \A j, k \in DOMAIN sessions :
      /\ sessions[j].isActive /\ sessions[k].isActive
      /\ sessions[j].country = usa /\ sessions[k].country = usa
      => sessions[j].proxyId = sessions[k].proxyId

\* the same under MemStorage, where a handler re-pins in one step
PinnedToOneProxyInMemory == ~ses.db => C36_CountryPinnedToOneProxy

-----------------------------------------------------------------------------
(* Pool selector: what vouches for the proxy returned *)

\* this step is the return of a getProxyForScreen call with a proxy
SelReturns == sel'.pc = "done" /\ sel' # sel /\ sel'.result # Null

\* the record returned is one the call probed, and its probe succeeded: it
\* had answered well earlier in the batch, or answers well in this step
PassedLiveProbe(p) ==
  \E i \in sel.good \cup sel.pending :
    /\ sel.sample[i].id = p.id
    /\ \/ i \in sel.good
       \/ p.id \in DOMAIN proxies' /\ proxies'[p.id].isWorking

\* C37: every proxy getProxyForScreen returns was marked working in the pool
\* when the call read it, or passed a live probe during the call.
C37_ReturnedProxyIsVouchedFor ==
  [][SelReturns =>
       IF sel.pc = "probing"
       THEN PassedLiveProbe(sel'.result[1])
       ELSE /\ sel'.result[1].id \in DOMAIN proxies
            /\ proxies[sel'.result[1].id] = sel'.result[1]
            /\ sel'.result[1].isWorking]_vars

\* a call has returned a record that was not marked working when the call
\* read it and that its probe has marked working
C37_Witness ==
  /\ sel.pc = "done" /\ sel.path = "probe"
  /\ sel.result # Null
  /\ ~sel.result[1].isWorking
  /\ sel.result[1].id \in sel.probed
  /\ proxies[sel.result[1].id].isWorking

-----------------------------------------------------------------------------
(* Health report for one id: claims *)

\* this step is the answer of a health check's probe
HealthCheckAnswers == hc' # hc /\ hc' \subseteq hc

\* C38: healthCheckProxy(id) probes and updates only the pool record with
\* that id; when the pool has no record with that id nothing is probed and
\* no pool record changes.
C38_HealthCheckTouchesOnlyItsProxy ==
  [][/\ \A proxyId \in ProxyIdInputs :
          HealthCheckStart(proxyId) =>
            /\ proxyId \in DOMAIN proxies
            /\ hc' = {proxyId}
     /\ HealthCheckAnswers =>
          \A id \in DOMAIN proxies :
            (id \notin DOMAIN proxies' \/ proxies'[id] # proxies[id])
              => id \in hc \ hc']_vars

-----------------------------------------------------------------------------
(* The screen tile's content fetch *)

\* ScreenCard: a tile that is live (its session active, its proxy marked
\* working) loads /api/proxy-fetch?url=<targetUrl>&sessionId=<session.id>
TileFetch(s) ==
  /\ sessions[s].isActive
  /\ sessions[s].proxyId # Null
  /\ sessions[s].proxyId[1] \in DOMAIN proxies
  /\ proxies[sessions[s].proxyId[1]].isWorking
  /\ FetchStart(TRUE, Null, Some(s))

\* C39: every content fetch of an active screen tile is accepted by the
\* router and attempted through the session's pinned proxy; it is never
\* rejected for a missing request parameter.
C39_TileFetchIsAttempted ==
  [][\A s \in DOMAIN sessions :
       TileFetch(s) =>
         /\ rq'.status # 400
         /\ rq'.pc = "pick"
         /\ rq'.sessionId = Some(s)]_vars

=============================================================================
